---- MODULE Spec2Model ----
(***************************************************************************)
(* Element store (CodebaseIndex), its secondary indexes and LRU cache, the *)
(* filter model and the query optimizer / execution plan of the offline    *)
(* codebase search engine.                                                  *)
(*                                                                         *)
(* Python strings are TLA+ strings; Python lists are sequences; dicts are  *)
(* functions whose DOMAIN is the set of keys; Python None is NONE.         *)
(***************************************************************************)
EXTENDS Integers, Sequences, FiniteSets, TLC

VARIABLES
    \* ---- CodebaseIndex (src/index/codebase_index.py) ----
    elements,          \* _elements: element_id -> ElementReference | CodeElement
    modules,           \* _modules: module_path -> set of element ids
    classes,           \* _classes: class name -> element id
    functions,         \* _functions: function/method name -> element id
    methods,           \* _methods: parent id -> (method name -> element id)
    file_elements,     \* _file_elements: file path -> set of element ids
    token_index,       \* _token_index: token -> set of element ids
    name_trie,         \* _name_trie: word -> ids stored at the word's end node
    parent_children,   \* _parent_children: parent id -> set of child ids
    cache,             \* _element_cache._cache: key -> element
    usage_list,        \* _element_cache._usage_list (least recently used first)
    capacity,          \* _element_cache.capacity
    total_elements,    \* total_elements counter
    loaded_elements,   \* loaded_elements counter
    lazy_loading,      \* constructor flag
    search_index_all,  \* constructor flag
    snapshot,          \* the .idx file written by save_to_file (NONE: no file)
    \* ---- semantic maps of the index read by the query layer ----
    registry,          \* registry._elements_by_id: element id -> element
    by_symbol_type,    \* by_symbol_type: type -> (element id -> element)
    files,             \* files[file_path]["symbols"]: element id -> element
    role_index,        \* role -> list of elements
    decorator_index,   \* decorator name -> list of elements
    type_index,        \* type -> list of elements
    module_index,      \* module path -> list of elements
    name_prefix_index, \* name prefix -> list of elements
    path_prefix_index, \* file path prefix -> list of elements
    \* ---- one query (QueryEngine.query) ----
    q_filter,          \* the filter expression of the last query (NONE: none yet)
    q_branch,          \* the branch of QueryEngine.query that answered it
    q_plan,            \* the ExecutionPlan built for it (NONE on the other branches)
    q_result,          \* the elements returned, as a set
    q_calls,           \* matches() invocations on residual filters during execute
    \* ---- one evaluation of Filter.matches ----
    m_filter, m_item, m_value,
    \* ---- ElementRegistry / LazyLoadedRegistry ----
    elements_by_id,    \* _elements_by_id: CodeElementId -> element
    elements_by_hash,  \* _elements_by_hash: element_hash -> element
    returned,          \* value returned by the last registry call (NONE: None)
    raised,            \* TRUE when the last registry call raised
    \* ---- reads of the index ----
    name_memo,         \* functools.lru_cache of get_by_name: arguments -> list
    read_result,       \* the list returned by the last read
    \* ---- threads and locks ----
    pc,                \* thread -> the statement it is at
    index_lock,        \* CodebaseIndex._lock (RLock): owner and depth
    cache_lock,        \* LRUCache._lock (RLock): owner and depth
    found,             \* the ids find_prefix handed to the reading thread
    \* ---- DecoratorIndex (src/index/decorator_index.py) ----
    decorator_to_elements, \* decorator name -> list of elements
    category_to_elements,  \* category -> list of elements
    unresolved,            \* elements with an unresolved decorator
    find_result,           \* the list returned by the last find_by_decorator
    \* ---- history ----
    last_op            \* the last operation applied and its argument

storeVars == <<elements, modules, classes, functions, methods, file_elements,
               token_index, name_trie, parent_children, cache, usage_list, capacity,
               total_elements, loaded_elements, lazy_loading, search_index_all,
               snapshot>>
semVars   == <<registry, by_symbol_type, files, role_index, decorator_index,
               type_index, module_index, name_prefix_index, path_prefix_index>>
queryVars == <<q_filter, q_branch, q_plan, q_result, q_calls>>
matchVars == <<m_filter, m_item, m_value>>
registryVars == <<elements_by_id, elements_by_hash, returned, raised>>
readVars  == <<name_memo, read_result>>
threadVars == <<pc, index_lock, cache_lock, found>>
decoVars  == <<decorator_to_elements, category_to_elements, unresolved, find_result>>
vars      == <<storeVars, semVars, queryVars, matchVars, registryVars, readVars,
               threadVars, decoVars, last_op>>

NONE == "<None>"

\* no snapshot file written yet; no filter given; no plan built
NoSnapshot == [none |-> TRUE]
NoFilter == [op |-> "none"]
NoPlan == [none |-> TRUE]
\* the two threads: one mutating the index, one reading it
Threads == {"writer", "reader"}
\* a thread between two calls
Idle == [at |-> "idle"]
\* an RLock nobody holds
Unlocked == [owner |-> NONE, depth |-> 0]
\* None where an element is expected
NoElement == [none |-> TRUE]

-----------------------------------------------------------------------------
(* Helpers on sequences, dicts and strings.                                *)

Range(s) == {s[i] : i \in DOMAIN s}

EmptyDict == <<>>

\* d[k] = v, adding the key when it is new.
DictPut(d, k, v) == [x \in (DOMAIN d) \cup {k} |-> IF x = k THEN v ELSE d[x]]

\* dict.get(k, default)
DictGet(d, k, default) == IF k \in DOMAIN d THEN d[k] ELSE default

\* del d[k]
DictDel(d, k) == [x \in (DOMAIN d) \ {k} |-> d[x]]

Char(s, i) == SubSeq(s, i, i)

\* str.startswith
StartsWith(s, p) == Len(p) <= Len(s) /\ SubSeq(s, 1, Len(p)) = p

\* p in s (substring test)
Contains(s, p) == \E i \in 1..(Len(s) - Len(p) + 1) : SubSeq(s, i, i + Len(p) - 1) = p

\* s.split('(')[0]
RECURSIVE SplitParen0(_)
SplitParen0(s) ==
    IF s = "" THEN ""
    ELSE IF Char(s, 1) = "(" THEN ""
    ELSE Char(s, 1) \o SplitParen0(SubSeq(s, 2, Len(s)))

\* s.lstrip('@')
RECURSIVE LStripAt(_)
LStripAt(s) ==
    IF s # "" /\ Char(s, 1) = "@" THEN LStripAt(SubSeq(s, 2, Len(s))) ELSE s

\* the non-empty prefixes of s
Prefixes(s) == {SubSeq(s, 1, n) : n \in 1..Len(s)}

\* list.remove(x): drops the first occurrence
RECURSIVE ListRemove(_, _)
ListRemove(s, x) ==
    IF s = <<>> THEN <<>>
    ELSE IF Head(s) = x THEN Tail(s)
    ELSE <<Head(s)>> \o ListRemove(Tail(s), x)

-----------------------------------------------------------------------------
(* The code elements handed to the index by the parser. One record carries *)
(* the attributes the store reads (models/semantic_nodes.py CodeElement,   *)
(* whose docstring is doc here) and those the query layer reads            *)
(* (index/code_element.py CodeElement: doc, role, decorators). No element  *)
(* has an attribute named decorator or roles.                              *)

Elem(n, t, f, l, m, p, d, decs, r) ==
    [name |-> n, element_type |-> t, file_path |-> f, line_start |-> l,
     module_path |-> m, parent_name |-> p, doc |-> d, decorators |-> decs,
     role |-> r]

E1 == Elem("aa", "FUNCTION", "f1.py", 1, "m", NONE, "auth helper",
           <<"@login_required">>, "auth")
E2 == Elem("ab", "FUNCTION", "f1.py", 5, "m", NONE, "", <<>>, "util")
E3 == Elem("b", "FUNCTION", "f2.py", 1, "m", NONE, "x", <<"@login_required">>, "util")
E4 == Elem("run", "METHOD", "f2.py", 5, "n", "K", "", <<"cache(60)">>, NONE)

Universe == {E1, E2, E3, E4}

\* an element that shares module path and name with E1 and differs from it in
\* file path and start line
E5 == Elem("aa", "FUNCTION", "f2.py", 9, "m", NONE, "other", <<>>, "util")

\* every element defined in the source files
SourceElements == Universe \cup {E5}

\* the elements the store operations are explored on
StoreUniverse == {E1, E2, E4}

-----------------------------------------------------------------------------
(* Filter model: src/index/query/filters.py, field_filter.py,              *)
(* matching_strategies.py, includes_strategy.py, semantic_filters.py and   *)
(* cli_filters.py.                                                         *)

FieldFilter(field, value, strategy) ==
    [op |-> "field", field_name |-> field, value |-> value, strategy |-> strategy]
AndFilter(fs) == [op |-> "and", filters |-> fs]
OrFilter(fs) == [op |-> "or", filters |-> fs]
NotFilter(f) == [op |-> "not", sub_filter |-> f]
RoleFilter(r) == [op |-> "role_filter", role_name |-> r]
CompositeFilter(fs, operator) == [op |-> "composite", filters |-> fs, operator |-> operator]

\* re.compile / re.search raise re.error on a pattern that is no regular
\* expression; "[" stands for those patterns.
MalformedRegex(pattern) == pattern = "["

\* MatchingStrategy.matches(field_value, pattern); RegexStrategy.matches
\* catches re.error and answers False. Field values and patterns
\* are lower-case strings, and Regex patterns are literal strings, for which
\* re.search is the substring test.
StrategyMatches(strategy, field_value, pattern) ==
    CASE strategy = "exact"      -> field_value = pattern
      [] strategy = "startswith" -> StartsWith(field_value, pattern)
      [] strategy = "regex"      -> ~MalformedRegex(pattern) /\ Contains(field_value, pattern)
      [] strategy = "includes"   -> Contains(field_value, pattern)

\* FieldFilter.matches: hasattr, then None, then the strategy.
FieldFilterMatches(f, item) ==
    IF f.field_name \notin DOMAIN item THEN FALSE
    ELSE IF item[f.field_name] = NONE THEN FALSE
    ELSE StrategyMatches(f.strategy, item[f.field_name], f.value)

\* RoleFilter.matches reads item.roles, which the indexed elements do not carry.
RoleFilterMatches(f, item) ==
    IF "roles" \in DOMAIN item THEN f.role_name \in Range(item["roles"]) ELSE FALSE

\* RelationshipFilter(relation_type, target_name)
RelationshipFilter(relation_type, target_name) ==
    [op |-> "relationship", relation_type |-> relation_type, target_name |-> target_name]

\* The value of a relationship attribute (calls, called_by, inherits,
\* imported_by): a list of names, or a value that is no container (None).
ListOf(names) == [list |-> names]
NoList == [none |-> TRUE]

\* RelationshipFilter.matches raises TypeError when `target_name in related`
\* is evaluated on a value that is no container; nothing in it catches.
RelationshipRaises(f, item) ==
    /\ f.relation_type \in DOMAIN item
    /\ "list" \notin DOMAIN item[f.relation_type]

\* RelationshipFilter.matches when it returns
RelationshipMatches(f, item) ==
    IF f.relation_type \notin DOMAIN item THEN FALSE
    ELSE f.target_name \in Range(item[f.relation_type].list)

\* NotFilter.matches
NotMatches(sub_value) == ~sub_value

RECURSIVE Matches(_, _)
\* AndFilter / OrFilter / CompositeFilter bodies over their children.
AllMatch(fs, item) == \A i \in DOMAIN fs : Matches(fs[i], item)
AnyMatch(fs, item) == \E i \in DOMAIN fs : Matches(fs[i], item)

\* CompositeFilter.matches
CompositeMatches(f, item) ==
    IF f.filters = <<>> THEN TRUE
    ELSE IF f.operator = "AND" THEN AllMatch(f.filters, item)
    ELSE AnyMatch(f.filters, item)

\* Filter.matches, by dynamic dispatch on the filter's class.
Matches(f, item) ==
    CASE f.op = "field"       -> FieldFilterMatches(f, item)
      [] f.op = "and"         -> AllMatch(f.filters, item)
      [] f.op = "or"          -> AnyMatch(f.filters, item)
      [] f.op = "not"         -> NotMatches(Matches(f.sub_filter, item))
      [] f.op = "role_filter" -> RoleFilterMatches(f, item)
      [] f.op = "composite"   -> CompositeMatches(f, item)
      [] f.op = "relationship" -> RelationshipMatches(f, item)


-----------------------------------------------------------------------------
(* QueryPlanOptimizer: src/index/query/query_plan_optimizer.py             *)

\* keys of QueryPlanOptimizer.indexable_fields and .prefix_indexable
IndexableFields == {"decorator", "doc"}
PrefixIndexable == {"name", "file_path"}

RECURSIVE ExtractIndexedLookups(_)
RECURSIVE ExtractIndexedFrom(_)
\* the loop "for child in filter_expr.filters: result.extend(...)"
ExtractIndexedFrom(fs) ==
    IF fs = <<>> THEN <<>>
    ELSE ExtractIndexedLookups(Head(fs)) \o ExtractIndexedFrom(Tail(fs))

\* _extract_indexed_lookups
ExtractIndexedLookups(f) ==
    IF f.op = "field" /\ f.field_name \in IndexableFields /\ f.strategy = "exact"
    THEN <<f>>
    ELSE IF f.op \in {"and", "or"} THEN ExtractIndexedFrom(f.filters)
    ELSE <<>>

RECURSIVE ExtractPrefixLookups(_)
RECURSIVE ExtractPrefixFrom(_)
ExtractPrefixFrom(fs) ==
    IF fs = <<>> THEN <<>>
    ELSE ExtractPrefixLookups(Head(fs)) \o ExtractPrefixFrom(Tail(fs))

\* _extract_prefix_lookups
ExtractPrefixLookups(f) ==
    IF f.op = "field" /\ f.field_name \in PrefixIndexable /\ f.strategy = "startswith"
    THEN <<f>>
    ELSE IF f.op \in {"and", "or"} THEN ExtractPrefixFrom(f.filters)
    ELSE <<>>

RECURSIVE ExtractRemainingFilters(_, _)
RECURSIVE ExtractRemainingFrom(_, _)
ExtractRemainingFrom(fs, already_optimized) ==
    IF fs = <<>> THEN <<>>
    ELSE ExtractRemainingFilters(Head(fs), already_optimized)
         \o ExtractRemainingFrom(Tail(fs), already_optimized)

\* _extract_remaining_filters (its inner recurse). FieldFilter defines no
\* __eq__, so "expr not in optimized_set" is by object identity; the objects
\* in the set are exactly the field filters the two extractions reached by the
\* same And/Or descent, so membership by value decides the same way.
ExtractRemainingFilters(f, already_optimized) ==
    IF f.op = "field"
    THEN IF f \notin Range(already_optimized) THEN <<f>> ELSE <<>>
    ELSE IF f.op \in {"and", "or"} THEN ExtractRemainingFrom(f.filters, already_optimized)
    ELSE <<f>>

\* cost_estimator of _sort_by_estimated_cost
CostEstimator(f) ==
    IF f.op = "field" /\ f.strategy = "exact" THEN 1
    ELSE IF f.op = "field" /\ f.strategy = "startswith" THEN 2
    ELSE IF f.op = "field" /\ f.strategy = "regex" THEN 10
    ELSE IF f.op = "field" /\ f.strategy = "fuzzy" THEN 20
    ELSE IF f.op = "and" THEN 5
    ELSE IF f.op = "or" THEN 8
    ELSE 5

\* the residual filters left in the order of extraction
SortSkipped(fs) == fs

\* sorted(filters, key=cost_estimator): a stable sort
RECURSIVE InsertByCost(_, _)
InsertByCost(sorted, f) ==
    IF sorted = <<>> THEN <<f>>
    ELSE IF CostEstimator(Head(sorted)) <= CostEstimator(f)
         THEN <<Head(sorted)>> \o InsertByCost(Tail(sorted), f)
         ELSE <<f>> \o sorted

RECURSIVE SortFrom(_, _)
SortFrom(sorted, rest) ==
    IF rest = <<>> THEN sorted ELSE SortFrom(InsertByCost(sorted, Head(rest)), Tail(rest))

SortByEstimatedCost(fs) == SortFrom(<<>>, fs)

\* create_execution_plan
CreateExecutionPlan(f) ==
    LET indexed_lookups == ExtractIndexedLookups(f)
        prefix_lookups  == ExtractPrefixLookups(f)
        remaining       == ExtractRemainingFilters(f, indexed_lookups \o prefix_lookups)
    IN  [indexed_lookups   |-> indexed_lookups,
         prefix_lookups    |-> prefix_lookups,
         remaining_filters |-> SortByEstimatedCost(remaining)]

-----------------------------------------------------------------------------
(* ExecutionPlan: src/index/query/execution_plan.py                        *)

NoIndex == [none |-> TRUE]

\* _get_index_for_field
GetIndexForField(field_name) ==
    CASE field_name = "role"      -> role_index
      [] field_name = "decorator" -> decorator_index
      [] field_name = "type"      -> type_index
      [] field_name = "module"    -> module_index
      [] OTHER                    -> NoIndex

\* _get_prefix_index_for_field
GetPrefixIndexForField(field_name) ==
    CASE field_name = "name"      -> name_prefix_index
      [] field_name = "file_path" -> path_prefix_index
      [] OTHER                    -> NoIndex

\* One pass of either lookup loop: "if field_index and lookup.value in
\* field_index" (None and the empty dict are both falsy), then the
\* intersection.
LookupNarrow(field_index, lookup, candidates) ==
    IF field_index # NoIndex /\ DOMAIN field_index # {} /\ lookup.value \in DOMAIN field_index
    THEN candidates \cap Range(field_index[lookup.value])
    ELSE candidates

\* The state of execute between statements: the candidates, whether it has
\* returned [], and the number of matches() calls made on residual filters.
RECURSIVE RunIndexed(_, _)
RunIndexed(lookups, st) ==
    IF lookups = <<>> \/ st.returned THEN st
    ELSE LET c == LookupNarrow(GetIndexForField(Head(lookups).field_name),
                               Head(lookups), st.candidates)
         IN  RunIndexed(Tail(lookups),
                        [st EXCEPT !.candidates = c, !.returned = (c = {})])

RECURSIVE RunPrefix(_, _)
RunPrefix(lookups, st) ==
    IF lookups = <<>> \/ st.returned THEN st
    ELSE LET c == LookupNarrow(GetPrefixIndexForField(Head(lookups).field_name),
                               Head(lookups), st.candidates)
         IN  RunPrefix(Tail(lookups),
                       [st EXCEPT !.candidates = c, !.returned = (c = {})])

RECURSIVE RunRemaining(_, _)
RunRemaining(fs, st) ==
    IF fs = <<>> \/ st.returned THEN st
    ELSE LET c == {item \in st.candidates : Matches(Head(fs), item)}
         IN  RunRemaining(Tail(fs),
                          [candidates |-> c, returned |-> (c = {}),
                           calls |-> st.calls + Cardinality(st.candidates)])

\* execute: the full candidate set, the indexed lookups, the prefix lookups,
\* the residual filters.
Execute(plan) ==
    LET st0 == [candidates |-> Range(elements), returned |-> FALSE, calls |-> 0]
    IN  RunRemaining(plan.remaining_filters,
            RunPrefix(plan.prefix_lookups,
                RunIndexed(plan.indexed_lookups, st0)))


-----------------------------------------------------------------------------
(* LRUCache: src/index/codebase_index.py, lines 648-697. A cache is the    *)
(* pair of its _cache dict and its _usage_list.                             *)

\* LRUCache.get: the cache after the call (the value returned is c.cache[key])
LruGet(c, key) ==
    IF key \notin DOMAIN c.cache THEN c
    ELSE [c EXCEPT !.usage_list = Append(ListRemove(@, key), key)]

\* evict_oldest popping the tail of the usage list instead of its head
LruEvictNewest(c) ==
    IF c.usage_list = <<>> THEN c
    ELSE [cache |-> DictDel(c.cache, c.usage_list[Len(c.usage_list)]),
          usage_list |-> SubSeq(c.usage_list, 1, Len(c.usage_list) - 1)]

\* LRUCache.evict_oldest
LruEvictOldest(c) ==
    IF c.usage_list = <<>> THEN c
    ELSE [cache |-> DictDel(c.cache, Head(c.usage_list)),
          usage_list |-> Tail(c.usage_list)]

\* LRUCache.put
LruPut(c, cap, key, value) ==
    LET c1 == IF key \in DOMAIN c.cache
              THEN [c EXCEPT !.usage_list = ListRemove(@, key)]
              ELSE IF Cardinality(DOMAIN c.cache) >= cap THEN LruEvictOldest(c)
              ELSE c
    IN  [cache |-> DictPut(c1.cache, key, value),
         usage_list |-> Append(c1.usage_list, key)]

-----------------------------------------------------------------------------
(* CodebaseIndex: src/index/codebase_index.py                              *)

\* f"{element.module_path}.{element.name}"
ElementId(element) ==
    (IF element.module_path = NONE THEN "None" ELSE element.module_path)
    \o "." \o element.name

\* ElementReference.from_element (line_range is kept as its first line)
FromElement(element) ==
    [element_id |-> ElementId(element), element_type |-> element.element_type,
     name |-> element.name, module_path |-> element.module_path,
     file_path |-> element.file_path, line_start |-> element.line_start,
     is_loaded |-> FALSE]

\* isinstance(x, ElementReference)
IsReference(x) == "is_loaded" \in DOMAIN x

\* Python truthiness of an optional string
Truthy(x) == x # NONE /\ x # ""

\* f"{element.module_path}.{element.parent_name}"
ParentId(element) == element.module_path \o "." \o element.parent_name

\* s.split(sep), as the set of its pieces
RECURSIVE SplitFrom(_, _, _)
SplitFrom(s, sep, piece) ==
    IF s = "" THEN {piece}
    ELSE IF Char(s, 1) = sep THEN {piece} \cup SplitFrom(SubSeq(s, 2, Len(s)), sep, "")
    ELSE SplitFrom(SubSeq(s, 2, Len(s)), sep, piece \o Char(s, 1))

Split(s, sep) == SplitFrom(s, sep, "")

\* CodeElement.generate_search_tokens (names, docstrings and module paths of
\* the model are lower-case, docstring words are separated by single blanks)
SearchTokens(element) ==
    {element.name}
    \cup (IF Truthy(element.doc)
          THEN {w \in Split(element.doc, " ") : Len(w) > 2} ELSE {})
    \cup (IF Truthy(element.module_path) THEN Split(element.module_path, ".") ELSE {})

\* _index_element_for_search: the token index after the call
IndexElementForSearch(ti, element) ==
    LET toks == {t \in SearchTokens(element) : Len(t) > 2}
    IN  [t \in (DOMAIN ti) \cup toks |->
            IF t \in toks THEN DictGet(ti, t, {}) \cup {ElementId(element)} ELSE ti[t]]

\* the pieces of _update_indexes, each the map after the call
ModulesAfter(m, element_id, element) ==
    IF Truthy(element.module_path)
    THEN DictPut(m, element.module_path,
                 DictGet(m, element.module_path, {}) \cup {element_id})
    ELSE m

ClassesAfter(m, element_id, element) ==
    IF element.element_type = "CLASS" THEN DictPut(m, element.name, element_id) ELSE m

FunctionsAfter(m, element_id, element) ==
    IF element.element_type \in {"FUNCTION", "METHOD"}
    THEN DictPut(m, element.name, element_id) ELSE m

MethodsAfter(m, element_id, element) ==
    IF element.element_type = "METHOD" /\ Truthy(element.parent_name)
    THEN DictPut(m, ParentId(element),
                 DictPut(DictGet(m, ParentId(element), EmptyDict),
                         element.name, element_id))
    ELSE m

\* _update_indexes with the file index left out
FileElementsAfterDropped(m, element_id, element) == m

FileElementsAfter(m, element_id, element) ==
    DictPut(m, element.file_path, DictGet(m, element.file_path, {}) \cup {element_id})

ParentChildrenAfter(m, element_id, element) ==
    IF Truthy(element.parent_name)
    THEN DictPut(m, ParentId(element),
                 DictGet(m, ParentId(element), {}) \cup {element_id})
    ELSE m

\* Trie.insert
TrieInsert(t, word, element_id) ==
    DictPut(t, word, DictGet(t, word, {}) \cup {element_id})

\* _update_indexes
UpdateIndexes(element_id, element) ==
    /\ modules' = ModulesAfter(modules, element_id, element)
    /\ classes' = ClassesAfter(classes, element_id, element)
    /\ functions' = FunctionsAfter(functions, element_id, element)
    /\ methods' = MethodsAfter(methods, element_id, element)
    /\ file_elements' = FileElementsAfter(file_elements, element_id, element)
    /\ parent_children' = ParentChildrenAfter(parent_children, element_id, element)
    /\ name_trie' = TrieInsert(name_trie, element.name, element_id)

indexVars == <<modules, classes, functions, methods, file_elements,
               parent_children, name_trie>>

\* add_element with the duplicate check of lines 110-117 left out: an id that
\* is already stored is stored again
AddElementEffectOverwriting(element, force_full) ==
    LET element_id == ElementId(element) IN
    /\ IF lazy_loading /\ ~force_full
       THEN /\ elements' = DictPut(elements, element_id, FromElement(element))
            /\ UNCHANGED <<loaded_elements, token_index>>
       ELSE /\ elements' = DictPut(elements, element_id, element)
            /\ loaded_elements' = IF element_id \in DOMAIN elements
                                  THEN loaded_elements
                                  ELSE loaded_elements + 1
            /\ token_index' = IF search_index_all
                              THEN IndexElementForSearch(token_index, element)
                              ELSE token_index
    /\ UpdateIndexes(element_id, element)
    /\ total_elements' = IF element_id \in DOMAIN elements
                         THEN total_elements
                         ELSE total_elements + 1

\* add_element: the CodebaseIndex part of the state after the call
AddElementEffect(element, force_full) ==
    LET element_id == ElementId(element) IN
    IF element_id \in DOMAIN elements
    THEN IF IsReference(elements[element_id])
         THEN /\ UpdateIndexes(element_id, element)
              /\ elements' = DictPut(elements, element_id, element)
              /\ loaded_elements' = loaded_elements + 1
              /\ UNCHANGED <<token_index, total_elements>>
         ELSE UNCHANGED <<elements, indexVars, token_index, total_elements,
                          loaded_elements>>
    ELSE /\ IF lazy_loading /\ ~force_full
            THEN /\ elements' = DictPut(elements, element_id, FromElement(element))
                 /\ UNCHANGED <<loaded_elements, token_index>>
            ELSE /\ elements' = DictPut(elements, element_id, element)
                 /\ loaded_elements' = loaded_elements + 1
                 /\ token_index' = IF search_index_all
                                   THEN IndexElementForSearch(token_index, element)
                                   ELSE token_index
         /\ UpdateIndexes(element_id, element)
         /\ total_elements' = total_elements + 1


\* The key the parser files an element under (FunctionVisitor._visit_func:
\* self.elements[node.name] = function_element).
ParserKey(element) == element.name

\* parser.parse_file(path) on an unchanged source file: the elements defined
\* in the file, in source order, each under the parser's key.
ParsedElements(path) ==
    {e \in SourceElements : e.file_path = path}

\* the "for element_id, element in file_elements.items()" search of
\* _load_element: the elements of the file that match the reference
MatchesOf(reference) ==
    {e \in ParsedElements(reference.file_path) :
        /\ e.name = reference.name
        /\ e.element_type = reference.element_type
        /\ e.line_start = reference.line_start}

\* the first match in source order
FirstMatch(reference) ==
    CHOOSE e \in MatchesOf(reference) :
        \A o \in MatchesOf(reference) : e.line_start <= o.line_start

\* _load_element(reference); parse_ok is whether parse_file returned (it
\* raises when the file cannot be read or parsed, which the except catches)
LoadElementEffect(reference, parse_ok) ==
    LET c0 == [cache |-> cache, usage_list |-> usage_list]
        c1 == IF loaded_elements >= capacity THEN LruEvictOldest(c0) ELSE c0
    IN  IF parse_ok /\ MatchesOf(reference) # {}
        THEN LET element == FirstMatch(reference)
                 element_id == ParserKey(element)
                 c2 == LruPut(c1, capacity, element_id, element)
             IN  /\ elements' = DictPut(elements, element_id, element)
                 /\ cache' = c2.cache
                 /\ usage_list' = c2.usage_list
                 /\ loaded_elements' = loaded_elements + 1
                 /\ token_index' = IndexElementForSearch(token_index, element)
        ELSE /\ cache' = c1.cache
             /\ usage_list' = c1.usage_list
             /\ UNCHANGED <<elements, loaded_elements, token_index>>

\* get_element whose miss makes the cache give up its oldest entry
GetElementEffectEvictingOnMiss(element_id, parse_ok) ==
    IF element_id \notin DOMAIN elements
    THEN LET c == LruEvictOldest([cache |-> cache, usage_list |-> usage_list])
         IN  /\ cache' = c.cache
             /\ usage_list' = c.usage_list
             /\ UNCHANGED <<elements, loaded_elements, token_index>>
    ELSE IF element_id \in DOMAIN cache
    THEN LET c == LruGet([cache |-> cache, usage_list |-> usage_list], element_id)
         IN  /\ cache' = c.cache
             /\ usage_list' = c.usage_list
             /\ UNCHANGED <<elements, loaded_elements, token_index>>
    ELSE IF IsReference(elements[element_id])
    THEN LoadElementEffect(elements[element_id], parse_ok)
    ELSE LET c == LruPut([cache |-> cache, usage_list |-> usage_list], capacity,
                         element_id, elements[element_id])
         IN  /\ cache' = c.cache
             /\ usage_list' = c.usage_list
             /\ UNCHANGED <<elements, loaded_elements, token_index>>

\* get_element(element_id): the CodebaseIndex part of the state after the call
GetElementEffect(element_id, parse_ok) ==
    IF element_id \notin DOMAIN elements
    THEN UNCHANGED <<elements, cache, usage_list, loaded_elements, token_index>>
    ELSE IF element_id \in DOMAIN cache
    THEN LET c == LruGet([cache |-> cache, usage_list |-> usage_list], element_id)
         IN  /\ cache' = c.cache
             /\ usage_list' = c.usage_list
             /\ UNCHANGED <<elements, loaded_elements, token_index>>
    ELSE IF IsReference(elements[element_id])
    THEN LoadElementEffect(elements[element_id], parse_ok)
    ELSE LET c == LruPut([cache |-> cache, usage_list |-> usage_list], capacity,
                         element_id, elements[element_id])
         IN  /\ cache' = c.cache
             /\ usage_list' = c.usage_list
             /\ UNCHANGED <<elements, loaded_elements, token_index>>

\* save_to_file: the pickled index_data
IndexData ==
    [elements |-> [id \in DOMAIN elements |->
                      [type |-> IF IsReference(elements[id]) THEN "reference"
                                ELSE "element",
                       data |-> elements[id]]],
     modules |-> modules, classes |-> classes, functions |-> functions,
     methods |-> methods, file_elements |-> file_elements,
     parent_children |-> parent_children, token_index |-> token_index,
     stats |-> [total_elements |-> total_elements,
                loaded_elements |-> loaded_elements]]

\* The restore loop of load_from_file rebuilds each saved reference with
\* ElementType[ref_data['element_type']]; asdict leaves the enum member in
\* place, and indexing the enum class by a member raises KeyError. Entries
\* saved as full elements are skipped.
LoadRaises(index_data) ==
    \E id \in DOMAIN index_data.elements : index_data.elements[id].type = "reference"

\* the element map of the loaded index
LoadedElements(index_data) ==
    [id \in {i \in DOMAIN index_data.elements :
                index_data.elements[i].type = "reference"} |->
        index_data.elements[id].data]

\* the trie rebuilt from every saved entry's name
RECURSIVE RebuiltTrie(_, _)
RebuiltTrie(index_data, ids) ==
    IF ids = {} THEN EmptyDict
    ELSE LET id == CHOOSE i \in ids : TRUE
         IN  TrieInsert(RebuiltTrie(index_data, ids \ {id}),
                        index_data.elements[id].data.name, id)


-----------------------------------------------------------------------------
(* The semantic maps of the index (registry, by_symbol_type, files,        *)
(* role_index, decorator_index, type_index, module_index and the two       *)
(* prefix indexes).                                                        *)

\* list.append under a key, creating the list when the key is new
AppendUnder(m, key, x) == DictPut(m, key, Append(DictGet(m, key, <<>>), x))

\* the base name with a leading @ left in place
BaseNameKeepingAt(decorator) == SplitParen0(decorator)

\* decorator.split('(')[0].lstrip('@')
BaseName(decorator) == LStripAt(SplitParen0(decorator))

\* DecoratorIndex.add_element, the loop over element.decorators
RECURSIVE DecoratorsIndexed(_, _, _)
DecoratorsIndexed(m, element, decs) ==
    IF decs = <<>> THEN m
    ELSE DecoratorsIndexed(AppendUnder(m, BaseName(Head(decs)), element),
                           element, Tail(decs))

\* DecoratorIndex.add_element: decorator_to_elements after the call
DecoratorIndexAfter(m, element) ==
    IF element.decorators = <<>> THEN m
    ELSE DecoratorsIndexed(m, element, element.decorators)

\* str.lower() on the names of element types
Lower(t) ==
    CASE t = "FUNCTION" -> "function"
      [] t = "METHOD"   -> "method"
      [] t = "CLASS"    -> "class"
      [] OTHER          -> t

\* x under every key of keys
RECURSIVE AppendUnderAll(_, _, _)
AppendUnderAll(m, keys, x) ==
    IF keys = {} THEN m
    ELSE LET k == CHOOSE k \in keys : TRUE
         IN  AppendUnderAll(AppendUnder(m, k, x), keys \ {k}, x)

\* Indexing one element into the semantic maps: every applicable map gets
\* the element in one step.
SemanticIndexEffect(element) ==
    LET element_id == ElementId(element) IN
    /\ registry' = DictPut(registry, element_id, element)
    /\ by_symbol_type' =
           DictPut(by_symbol_type, Lower(element.element_type),
                   DictPut(DictGet(by_symbol_type, Lower(element.element_type),
                                   EmptyDict), element_id, element))
    /\ files' = DictPut(files, element.file_path,
                        DictPut(DictGet(files, element.file_path, EmptyDict),
                                element_id, element))
    /\ role_index' = IF element.role # NONE
                     THEN AppendUnder(role_index, element.role, element)
                     ELSE role_index
    /\ decorator_index' = DecoratorIndexAfter(decorator_index, element)
    /\ type_index' = AppendUnder(type_index, Lower(element.element_type), element)
    /\ module_index' = IF Truthy(element.module_path)
                       THEN AppendUnder(module_index, element.module_path, element)
                       ELSE module_index
    /\ name_prefix_index' = AppendUnderAll(name_prefix_index, Prefixes(element.name),
                                           element)
    /\ path_prefix_index' = AppendUnderAll(path_prefix_index,
                                           Prefixes(element.file_path), element)

\* isinstance(element, FunctionElement): functions and methods
IsFunctionElement(element) == element.element_type \in {"FUNCTION", "METHOD"}

\* getattr(element, "semantic_roles", [])
SemanticRoles(element) == IF element.role = NONE THEN <<>> ELSE <<element.role>>

\* remove_element, the loop over the roles
RECURSIVE RolesPurged(_, _, _)
RolesPurged(m, element, roles) ==
    IF roles = <<>> THEN m
    ELSE LET role == Head(roles)
             m1 == IF role \in DOMAIN m /\ element \in Range(m[role])
                   THEN DictPut(m, role, ListRemove(m[role], element))
                   ELSE m
         IN  RolesPurged(m1, element, Tail(roles))

\* remove_element, the "@" normalisation of a decorator name
AtName(decorator_name) ==
    IF StartsWith(decorator_name, "@") THEN decorator_name ELSE "@" \o decorator_name

\* remove_element, the loop over the decorators
RECURSIVE DecoratorsPurged(_, _, _)
DecoratorsPurged(m, element, decs) ==
    IF decs = <<>> THEN m
    ELSE LET decorator_name == AtName(Head(decs))
             m1 == IF decorator_name \in DOMAIN m
                      /\ element \in Range(m[decorator_name])
                   THEN DictPut(m, decorator_name,
                                ListRemove(m[decorator_name], element))
                   ELSE m
         IN  DecoratorsPurged(m1, element, Tail(decs))


-----------------------------------------------------------------------------
(* Bounds of the model.                                                    *)

\* cache_size values the index is constructed with
MaxCapacity == 1
\* lazy loads are explored while loaded_elements is below this
MaxLoaded == 2
\* new ids are added while total_elements is below this
MaxTotal == 3
\* how many times one element is indexed into the semantic maps
MaxReindex == 1

\* CodebaseIndex.__init__, cache_size: int = 1000
DefaultCacheSize == 1000

\* the ids get_element and remove_element are called with: the ids of the
\* elements, the parser's keys, and an id no element has
Ids == {ElementId(e) : e \in StoreUniverse} \cup {ParserKey(e) : e \in StoreUniverse}
       \cup {"m.unknown"}

\* the elements and ids the save / load round trips and the removals are
\* explored on
SmallUniverse == {E1, E4}
SmallIds == {ElementId(e) : e \in SmallUniverse} \cup {ParserKey(E1), "m.unknown"}

\* the elements and ids the identity of elements is explored on
IdentityUniverse == {E1, E5, E4}
IdentityIds == {ElementId(e) : e \in IdentityUniverse} \cup {ParserKey(E1), "m.unknown"}

Op(op, id, flag, fresh) == [op |-> op, id |-> id, flag |-> flag, fresh |-> fresh]

-----------------------------------------------------------------------------
(* Operations of the index.                                                *)

\* CodebaseIndex.add_element(element, force_full)
AddElement(element, force_full) ==
    /\ ElementId(element) \notin DOMAIN elements => total_elements < MaxTotal
    /\ AddElementEffect(element, force_full)
    /\ last_op' = Op("add_element", ElementId(element), force_full,
                     ElementId(element) \notin DOMAIN elements)
    /\ UNCHANGED <<cache, usage_list, capacity, lazy_loading, search_index_all,
                   snapshot, semVars, queryVars, matchVars, decoVars, registryVars, readVars, threadVars>>

\* CodebaseIndex.get_element(element_id)
GetElement(element_id, parse_ok) ==
    /\ loaded_elements < MaxLoaded
    /\ GetElementEffect(element_id, parse_ok)
    /\ last_op' = Op("get_element", element_id, parse_ok,
                     element_id \in DOMAIN elements)
    /\ UNCHANGED <<indexVars, total_elements, capacity, lazy_loading,
                   search_index_all, snapshot, semVars, queryVars, matchVars, decoVars, registryVars, readVars, threadVars>>

\* CodebaseIndex.clear()
Clear ==
    /\ elements' = EmptyDict
    /\ modules' = EmptyDict
    /\ classes' = EmptyDict
    /\ functions' = EmptyDict
    /\ methods' = EmptyDict
    /\ file_elements' = EmptyDict
    /\ token_index' = EmptyDict
    /\ name_trie' = EmptyDict
    /\ parent_children' = EmptyDict
    /\ cache' = EmptyDict
    /\ usage_list' = <<>>
    /\ total_elements' = 0
    /\ loaded_elements' = 0
    /\ last_op' = Op("clear", NONE, FALSE, FALSE)
    /\ UNCHANGED <<capacity, lazy_loading, search_index_all, snapshot, semVars,
                   queryVars, matchVars, decoVars, registryVars, readVars, threadVars>>

\* CodebaseIndex.save_to_file(path)
SaveToFile ==
    /\ snapshot' = IndexData
    /\ last_op' = Op("save_to_file", NONE, FALSE, FALSE)
    /\ UNCHANGED <<elements, indexVars, token_index, cache, usage_list, capacity,
                   total_elements, loaded_elements, lazy_loading,
                   search_index_all, semVars, queryVars, matchVars, decoVars, registryVars, readVars, threadVars>>

\* CodebaseIndex.load_from_file(path, lazy_loading): the program goes on with
\* the index the call returns; when the call raises it keeps the index it had
LoadFromFile(lazy) ==
    /\ snapshot # NoSnapshot
    /\ IF LoadRaises(snapshot)
       THEN /\ last_op' = Op("load_from_file", NONE, lazy, FALSE)
            /\ UNCHANGED storeVars
       ELSE /\ elements' = LoadedElements(snapshot)
            /\ modules' = snapshot.modules
            /\ classes' = snapshot.classes
            /\ functions' = snapshot.functions
            /\ methods' = snapshot.methods
            /\ file_elements' = snapshot.file_elements
            /\ parent_children' = snapshot.parent_children
            /\ token_index' = snapshot.token_index
            /\ total_elements' = snapshot.stats.total_elements
            /\ loaded_elements' = 0
            /\ name_trie' = RebuiltTrie(snapshot, DOMAIN snapshot.elements)
            /\ cache' = EmptyDict
            /\ usage_list' = <<>>
            /\ capacity' = DefaultCacheSize
            /\ lazy_loading' = lazy
            /\ search_index_all' = FALSE
            /\ last_op' = Op("load_from_file", NONE, lazy, TRUE)
            /\ UNCHANGED snapshot
    /\ UNCHANGED <<semVars, queryVars, matchVars, decoVars, registryVars, readVars, threadVars>>

\* how many times an element has been indexed into the semantic maps
TimesIndexed(element) ==
    Cardinality({i \in DOMAIN DictGet(type_index, Lower(element.element_type), <<>>) :
                    type_index[Lower(element.element_type)][i] = element})

\* Indexing a parsed element: it is stored in full under its id and entered
\* in the registry and in every semantic map.
ProcessFile(element) ==
    /\ ElementId(element) \notin DOMAIN registry
    /\ TimesIndexed(element) < MaxReindex
    /\ ElementId(element) \notin DOMAIN elements => total_elements < MaxTotal
    /\ AddElementEffect(element, TRUE)
    /\ SemanticIndexEffect(element)
    /\ last_op' = Op("process_file", ElementId(element), TRUE,
                     ElementId(element) \notin DOMAIN elements)
    /\ UNCHANGED <<cache, usage_list, capacity, lazy_loading, search_index_all,
                   snapshot, queryVars, matchVars, decoVars, registryVars, readVars, threadVars>>

\* remove_element(element_id)
RemoveElement(element_id) ==
    /\ IF element_id \notin DOMAIN registry
       THEN UNCHANGED semVars
       ELSE LET element == registry[element_id]
                element_type == Lower(element.element_type)
            IN  /\ by_symbol_type' =
                       IF element_type \in DOMAIN by_symbol_type
                          /\ element_id \in DOMAIN by_symbol_type[element_type]
                       THEN DictPut(by_symbol_type, element_type,
                                    DictDel(by_symbol_type[element_type], element_id))
                       ELSE by_symbol_type
                /\ role_index' =
                       IF IsFunctionElement(element)
                       THEN RolesPurged(role_index, element, SemanticRoles(element))
                       ELSE role_index
                /\ decorator_index' =
                       IF IsFunctionElement(element)
                       THEN DecoratorsPurged(decorator_index, element,
                                             element.decorators)
                       ELSE decorator_index
                /\ files' =
                       IF element.file_path \in DOMAIN files
                          /\ element_id \in DOMAIN files[element.file_path]
                       THEN DictPut(files, element.file_path,
                                    DictDel(files[element.file_path], element_id))
                       ELSE files
                /\ registry' = DictDel(registry, element_id)
                /\ UNCHANGED <<type_index, module_index, name_prefix_index,
                               path_prefix_index>>
    /\ last_op' = Op("remove_element", element_id, FALSE,
                     element_id \in DOMAIN registry)
    /\ UNCHANGED <<storeVars, queryVars, matchVars, decoVars, registryVars, readVars, threadVars>>


-----------------------------------------------------------------------------
(* QueryEngine: src/index/query/query_engine.py                            *)

\* index.all_elements(): the values of the canonical store
AllElements == Range(elements)

\* _is_simple_indexed_lookup
IsSimpleIndexedLookup(f) ==
    /\ f.op = "field"
    /\ f.field_name \in {"role", "decorator", "type"}
    /\ f.strategy = "exact"

\* _direct_lookup
DirectLookup(f) ==
    CASE f.field_name = "role"      -> Range(DictGet(role_index, f.value, <<>>))
      [] f.field_name = "decorator" -> Range(DictGet(decorator_index, f.value, <<>>))
      [] f.field_name = "type"      -> Range(DictGet(type_index, f.value, <<>>))

\* _can_use_index_directly (RoleFilter; the filters of the model hold no
\* DecoratorFilter)
CanUseIndexDirectly(f) == f.op = "role_filter"

\* _query_with_index
QueryWithIndex(f) == Range(DictGet(role_index, f.role_name, <<>>))

\* _contains_expensive_strategy
RECURSIVE ContainsExpensiveStrategy(_)
ContainsExpensiveStrategy(f) ==
    IF "strategy" \in DOMAIN f THEN f.strategy \in {"fuzzy", "regex"}
    ELSE IF "filters" \in DOMAIN f
         THEN \E i \in DOMAIN f.filters : ContainsExpensiveStrategy(f.filters[i])
    ELSE FALSE

\* _optimized_execution without the loop over the expensive children
OptimizedExecutionCheapOnly(f) ==
    LET cheap == {i \in DOMAIN f.filters : ~ContainsExpensiveStrategy(f.filters[i])}
    IN  {item \in AllElements : \A i \in cheap : Matches(f.filters[i], item)}

\* _optimized_execution: the cheap children as one conjunction, then each
\* expensive child
OptimizedExecution(f) ==
    LET cheap == {i \in DOMAIN f.filters : ~ContainsExpensiveStrategy(f.filters[i])}
        expensive == (DOMAIN f.filters) \ cheap
        narrowed == {item \in AllElements : \A i \in cheap : Matches(f.filters[i], item)}
    IN  {item \in narrowed : \A i \in expensive : Matches(f.filters[i], item)}

\* QueryEngine.query(filter_expression), no formatter set
Query(f) ==
    /\ q_filter' = f
    /\ IF f = NoFilter
       THEN /\ q_branch' = "all"
            /\ q_result' = AllElements
            /\ q_plan' = NoPlan
            /\ q_calls' = 0
       ELSE IF IsSimpleIndexedLookup(f)
       THEN /\ q_branch' = "direct"
            /\ q_result' = DirectLookup(f)
            /\ q_plan' = NoPlan
            /\ q_calls' = 0
       ELSE IF CanUseIndexDirectly(f)
       THEN /\ q_branch' = "index"
            /\ q_result' = QueryWithIndex(f)
            /\ q_plan' = NoPlan
            /\ q_calls' = 0
       ELSE IF f.op = "and" /\ ContainsExpensiveStrategy(f)
       THEN /\ q_branch' = "optimized"
            /\ q_result' = OptimizedExecution(f)
            /\ q_plan' = NoPlan
            /\ q_calls' = 0
       ELSE LET plan == CreateExecutionPlan(f)
                run == Execute(plan)
            IN  /\ q_branch' = "plan"
                /\ q_result' = run.candidates
                /\ q_plan' = plan
                /\ q_calls' = run.calls
    /\ last_op' = Op("query", NONE, FALSE, FALSE)
    /\ UNCHANGED <<storeVars, semVars, matchVars, decoVars, registryVars, readVars, threadVars>>

\* QueryPlanOptimizer.create_execution_plan(f).execute(index), called directly
PlanAndExecute(f) ==
    LET plan == CreateExecutionPlan(f)
        run == Execute(plan)
    IN  /\ q_filter' = f
        /\ q_branch' = "plan"
        /\ q_result' = run.candidates
        /\ q_plan' = plan
        /\ q_calls' = run.calls
        /\ last_op' = Op("execute", NONE, FALSE, FALSE)
        /\ UNCHANGED <<storeVars, semVars, matchVars, decoVars, registryVars, readVars, threadVars>>

\* Filter.matches(item) on one filter and one element
Match(f, item) ==
    /\ m_filter' = f
    /\ m_item' = item
    /\ m_value' = Matches(f, item)
    /\ last_op' = Op("matches", NONE, FALSE, FALSE)
    /\ UNCHANGED <<storeVars, semVars, queryVars, registryVars, readVars, threadVars,
                   decoVars>>

-----------------------------------------------------------------------------
(* The filters queries are made with.                                      *)

DecLogin   == FieldFilter("decorator", "login_required", "exact")
DecMissing == FieldFilter("decorator", "missing", "exact")
RoleUtil   == FieldFilter("role", "util", "exact")
RoleAuth   == FieldFilter("role", "auth", "exact")
RoleNobody == FieldFilter("role", "nobody", "exact")
NameA      == FieldFilter("name", "a", "startswith")
NameZ      == FieldFilter("name", "z", "startswith")
DocX       == FieldFilter("doc", "x", "exact")
NameHasB   == FieldFilter("name", "b", "regex")
NameRun    == FieldFilter("name", "run", "exact")
DocIncl    == FieldFilter("doc", "help", "includes")

\* FieldFilter(field, ""): the default Exact strategy and the empty string
NameEmpty  == FieldFilter("name", "", "exact")
DocEmpty   == FieldFilter("doc", "", "exact")
EmptyValueFilters == {NameEmpty, DocEmpty}

Leaves == {DecLogin, DecMissing, RoleUtil, RoleAuth, RoleNobody, NameA, NameZ,
           DocX, NameHasB, NameRun, DocIncl}

\* And, Or and Not over leaves, one and two levels deep
FlatFilters ==
    Leaves
    \cup {AndFilter(<<>>), OrFilter(<<>>)}
    \cup {NotFilter(l) : l \in Leaves}
    \cup {NotFilter(NotFilter(l)) : l \in Leaves}
    \cup {AndFilter(<<a, b>>) : a \in Leaves, b \in Leaves}
    \cup {OrFilter(<<a, b>>) : a \in Leaves, b \in Leaves}
    \cup {AndFilter(<<l, NotFilter(l)>>) : l \in Leaves}
    \cup {OrFilter(<<l, NotFilter(l)>>) : l \in Leaves}

NestedFilters ==
    {AndFilter(<<OrFilter(<<DecLogin, RoleAuth>>), RoleUtil>>),
     AndFilter(<<OrFilter(<<RoleUtil, RoleAuth>>), NameA>>),
     OrFilter(<<AndFilter(<<DecLogin, RoleUtil>>), NameRun>>),
     NotFilter(AndFilter(<<DecLogin, RoleUtil>>)),
     NotFilter(OrFilter(<<NameA, RoleAuth>>)),
     AndFilter(<<NotFilter(OrFilter(<<NameA, RoleAuth>>)), NameHasB>>),
     AndFilter(<<DecLogin, NameA, RoleUtil>>),
     OrFilter(<<NameZ, DocX, RoleAuth>>)}

Filters == FlatFilters \cup NestedFilters

\* the filters matches() is evaluated on: the above and CompositeFilter
MatchFilters ==
    Filters
    \cup {CompositeFilter(<<>>, o) : o \in {"AND", "OR"}}
    \cup {CompositeFilter(<<a, b>>, o) : a \in {RoleUtil, NameA}, b \in {DocX, NameHasB},
                                        o \in {"AND", "OR"}}

-----------------------------------------------------------------------------
(* Specifications.                                                         *)

\* the state after CodebaseIndex(cache_size, lazy_loading, search_index_all)
\* with cache_size drawn from capacities
InitState(capacities) ==
    /\ elements = EmptyDict
    /\ modules = EmptyDict
    /\ classes = EmptyDict
    /\ functions = EmptyDict
    /\ methods = EmptyDict
    /\ file_elements = EmptyDict
    /\ token_index = EmptyDict
    /\ name_trie = EmptyDict
    /\ parent_children = EmptyDict
    /\ cache = EmptyDict
    /\ usage_list = <<>>
    /\ capacity \in capacities
    /\ total_elements = 0
    /\ loaded_elements = 0
    /\ lazy_loading \in BOOLEAN
    /\ search_index_all \in BOOLEAN
    /\ snapshot = NoSnapshot
    /\ registry = EmptyDict
    /\ by_symbol_type = EmptyDict
    /\ files = EmptyDict
    /\ role_index = EmptyDict
    /\ decorator_index = EmptyDict
    /\ type_index = EmptyDict
    /\ module_index = EmptyDict
    /\ name_prefix_index = EmptyDict
    /\ path_prefix_index = EmptyDict
    /\ q_filter = NoFilter
    /\ q_branch = "none"
    /\ q_plan = NoPlan
    /\ q_result = {}
    /\ q_calls = 0
    /\ m_filter = NoFilter
    /\ m_item = NONE
    /\ m_value = FALSE
    /\ elements_by_id = EmptyDict
    /\ elements_by_hash = EmptyDict
    /\ returned = NoElement
    /\ raised = FALSE
    /\ name_memo = EmptyDict
    /\ read_result = <<>>
    /\ pc = [t \in Threads |-> Idle]
    /\ decorator_to_elements = EmptyDict
    /\ category_to_elements = EmptyDict
    /\ unresolved = <<>>
    /\ find_result = <<>>
    /\ index_lock = Unlocked
    /\ cache_lock = Unlocked
    /\ found = <<>>
    /\ last_op = Op("init", NONE, FALSE, FALSE)

Init == InitState(0..MaxCapacity)

\* The element store under add, get and clear.
Next ==
    \/ \E e \in StoreUniverse, force_full \in BOOLEAN : AddElement(e, force_full)
    \/ \E id \in Ids, parse_ok \in BOOLEAN : GetElement(id, parse_ok)
    \/ Clear

Spec == Init /\ [][Next]_vars

\* The element store under all five operations, save and load included, on
\* the two elements of SmallUniverse.
NextSnapshot ==
    \/ \E e \in SmallUniverse, force_full \in BOOLEAN : AddElement(e, force_full)
    \/ \E id \in SmallIds, parse_ok \in BOOLEAN : GetElement(id, parse_ok)
    \/ Clear
    \/ SaveToFile
    \/ \E lazy \in BOOLEAN : LoadFromFile(lazy)

\* an index constructed with the largest cache size explored
InitSnapshot == Init /\ capacity = MaxCapacity

SpecSnapshot == InitSnapshot /\ [][NextSnapshot]_vars

\* The element store under add, get and clear, on elements of which two
\* share module path and name.
NextIdentity ==
    \/ \E e \in IdentityUniverse, force_full \in BOOLEAN : AddElement(e, force_full)
    \/ \E id \in IdentityIds, parse_ok \in BOOLEAN : GetElement(id, parse_ok)
    \/ Clear

SpecIdentity == Init /\ [][NextIdentity]_vars

\* Incremental re-indexing: elements are indexed and removed again.
NextRemove ==
    \/ \E e \in SmallUniverse : ProcessFile(e)
    \/ \E e \in SmallUniverse, force_full \in BOOLEAN : AddElement(e, force_full)
    \/ \E id \in SmallIds : RemoveElement(id)

SpecRemove == Init /\ [][NextRemove]_vars

\* The index of a default-constructed CodebaseIndex, as the query layer is
\* handed it.
InitQuery ==
    /\ Init
    /\ capacity = MaxCapacity
    /\ lazy_loading
    /\ ~search_index_all

\* Elements are stored (add_element with force_full) or indexed into the
\* semantic maps as well, then one query is answered on the index as built.
NextQuery ==
    \/ \E e \in Universe : q_branch = "none" /\ ProcessFile(e)
    \/ \E e \in Universe : q_branch = "none" /\ AddElement(e, TRUE)
    \/ \E f \in Filters \cup {NoFilter, RoleFilter("util")} \cup EmptyValueFilters :
           q_branch = "none" /\ Query(f)
    \/ \E f \in Filters : q_branch = "none" /\ PlanAndExecute(f)

SpecQuery == InitQuery /\ [][NextQuery]_vars

\* Filter.matches on every filter and element.
NextMatch ==
    \E f \in MatchFilters, item \in Universe : m_filter = NoFilter /\ Match(f, item)

SpecMatch == InitQuery /\ [][NextMatch]_vars

-----------------------------------------------------------------------------
(* Properties of the optimizer and the execution plan (SpecQuery).         *)

\* the naive evaluation: F.matches(x) on every element of the index
NaiveResult(f) == {x \in AllElements : Matches(f, x)}

\* C1: for every filter tree F and every indexed element set, the result of
\* create_execution_plan(F).execute(index) is, as a set, exactly the elements
\* x of the index for which F.matches(x) is true.
C1_OptimizerEquivalence ==
    last_op.op = "execute" => q_result = NaiveResult(q_filter)

\* an indexed lookup whose value has no entry, or an empty entry, in the
\* index of its field
ResolvesEmpty(lookup) ==
    LET field_index == GetIndexForField(lookup.field_name)
    IN  /\ field_index # NoIndex
        /\ \/ lookup.value \notin DOMAIN field_index
           \/ field_index[lookup.value] = <<>>

\* C2: when an indexed lookup of the plan resolves to no element (its value
\* has no entry in the field's index included), execute returns the empty
\* result and calls matches() of no residual filter on any element.
C2_ShortCircuit ==
    (/\ last_op.op = "execute"
     /\ \E i \in DOMAIN q_plan.indexed_lookups :
            ResolvesEmpty(q_plan.indexed_lookups[i]))
    => (q_result = {} /\ q_calls = 0)

\* the Or and Not nodes of a filter tree that no other Or or Not node encloses
RECURSIVE WholeNodes(_)
WholeNodes(f) ==
    IF f.op \in {"or", "not"} THEN {f}
    ELSE IF f.op = "and" THEN UNION {WholeNodes(f.filters[i]) : i \in DOMAIN f.filters}
    ELSE {}

\* the field predicates the plan handles on their own
PlanLeaves(plan) ==
    {x \in Range(plan.indexed_lookups) \cup Range(plan.prefix_lookups)
           \cup Range(plan.remaining_filters) : x.op = "field"}

\* the field predicates of a tree reached through And nodes only
RECURSIVE ConjunctLeaves(_)
ConjunctLeaves(f) ==
    IF f.op = "field" THEN {f}
    ELSE IF f.op = "and" THEN UNION {ConjunctLeaves(f.filters[i]) : i \in DOMAIN f.filters}
    ELSE {}

\* C3: in the plan built for a filter tree, every Or node and every Not node
\* is one residual filter, and no leaf that lies only below an Or or a Not
\* node is an indexed lookup, a prefix lookup or a residual of its own.
C3_OrNotKeptWhole ==
    last_op.op = "execute" =>
        /\ WholeNodes(q_filter) \subseteq Range(q_plan.remaining_filters)
        /\ PlanLeaves(q_plan) \subseteq ConjunctLeaves(q_filter)

\* Or([F, Not(F)]) over a field predicate F
IsTautology(f) ==
    /\ f.op = "or"
    /\ Len(f.filters) = 2
    /\ f.filters[1].op = "field"
    /\ f.filters[2] = NotFilter(f.filters[1])

\* C4: QueryEngine.query(Or([F, Not(F)])) returns every element of the index,
\* for every field predicate F.
C4_TautologyReturnsAll ==
    (last_op.op = "query" /\ IsTautology(q_filter)) => q_result = AllElements

\* And([F, Not(F)]) over a field predicate F
IsContradiction(f) ==
    /\ f.op = "and"
    /\ Len(f.filters) = 2
    /\ f.filters[1].op = "field"
    /\ f.filters[2] = NotFilter(f.filters[1])

\* C5: QueryEngine.query(And([F, Not(F)])) returns no element, for every
\* field predicate F, an Exact predicate whose value has no index entry
\* included.
C5_ContradictionReturnsNone ==
    (last_op.op = "query" /\ IsContradiction(q_filter)) => q_result = {}

-----------------------------------------------------------------------------
(* Properties of Filter.matches (SpecMatch).                               *)

\* C6: on every element, a conjunction without children matches, a
\* disjunction without children does not match, and Not(Not(F)) matches
\* exactly when F does; for AndFilter, OrFilter, NotFilter and for
\* CompositeFilter with operator AND and OR.
C6_BooleanLaws ==
    last_op.op = "matches" =>
        /\ m_filter \in {AndFilter(<<>>), CompositeFilter(<<>>, "AND")} => m_value
        /\ m_filter \in {OrFilter(<<>>), CompositeFilter(<<>>, "OR")} => ~m_value
        /\ (m_filter.op = "not" /\ m_filter.sub_filter.op = "not")
               => (m_value = Matches(m_filter.sub_filter.sub_filter, m_item))

-----------------------------------------------------------------------------
(* Properties of the store and its indexes.                                *)

\* the ids held by the secondary indexes of CodebaseIndex
IndexedIds ==
    UNION Range(modules)
    \cup Range(classes)
    \cup Range(functions)
    \cup UNION {Range(methods[p]) : p \in DOMAIN methods}
    \cup UNION Range(file_elements)
    \cup UNION Range(token_index)
    \cup UNION Range(name_trie)
    \cup UNION Range(parent_children)

\* the ids and elements held by the semantic maps
SemanticIds ==
    DOMAIN registry
    \cup UNION {DOMAIN by_symbol_type[t] : t \in DOMAIN by_symbol_type}
    \cup UNION {DOMAIN files[f] : f \in DOMAIN files}
    \cup {ElementId(x) : x \in UNION {Range(role_index[r]) : r \in DOMAIN role_index}}
    \cup {ElementId(x) : x \in UNION {Range(decorator_index[d]) :
                                         d \in DOMAIN decorator_index}}

\* C7: after an element is added and then removed by its id, the canonical
\* store has no entry for the id and no secondary index (name maps, module,
\* file, decorator, role, token, trie, parent->children) holds the id or the
\* element.
C7_RemovePurgesAll ==
    (last_op.op = "remove_element" /\ last_op.fresh) =>
        /\ last_op.id \notin DOMAIN elements
        /\ last_op.id \notin IndexedIds
        /\ last_op.id \notin SemanticIds

\* C8: in every state reached by add_element, get_element, clear,
\* save_to_file and load_from_file, every id held by a secondary index of
\* CodebaseIndex is a key of the canonical store.
C8_NoDanglingIds == IndexedIds \subseteq DOMAIN elements

\* the element add_element was last called with
LastAdded == CHOOSE e \in StoreUniverse : ElementId(e) = last_op.id

\* the maps _update_indexes fills hold the id of the element
InStructuralIndexes(e) ==
    LET element_id == ElementId(e) IN
    /\ Truthy(e.module_path) =>
           (e.module_path \in DOMAIN modules /\ element_id \in modules[e.module_path])
    /\ e.element_type \in {"FUNCTION", "METHOD"} =>
           (e.name \in DOMAIN functions /\ functions[e.name] = element_id)
    /\ e.element_type = "CLASS" =>
           (e.name \in DOMAIN classes /\ classes[e.name] = element_id)
    /\ e.file_path \in DOMAIN file_elements /\ element_id \in file_elements[e.file_path]
    /\ e.name \in DOMAIN name_trie /\ element_id \in name_trie[e.name]
    /\ Truthy(e.parent_name) =>
           (ParentId(e) \in DOMAIN parent_children
            /\ element_id \in parent_children[ParentId(e)])

\* the token index holds the id under each token of the element longer than
\* two characters
InTokenIndex(e) ==
    \A t \in {t \in SearchTokens(e) : Len(t) > 2} :
        t \in DOMAIN token_index /\ ElementId(e) \in token_index[t]

\* add_element stored the element itself, not a reference
StoredInFull == ~lazy_loading \/ last_op.flag

Represents(x, e) ==
    /\ x.name = e.name
    /\ x.module_path = e.module_path
    /\ x.file_path = e.file_path
    /\ x.line_start = e.line_start

-----------------------------------------------------------------------------
(* Identity of elements (SpecIdentity).                                    *)

\* a store entry carries the identity coordinates of the element
SameCoordinates(x, e) == Represents(x, e) /\ x.element_type = e.element_type

\* C11: elements that differ in an identity coordinate have different ids:
\* every add_element(e) leaves the store holding, under e's id, an entry with
\* e's coordinates, whatever was added before (no add is dropped as a
\* duplicate of another element, none overwrites another element's entry).
C11_DistinctIds ==
    [][\A e \in IdentityUniverse, force_full \in BOOLEAN :
           AddElement(e, force_full) =>
               /\ ElementId(e) \in DOMAIN elements'
               /\ SameCoordinates(elements'[ElementId(e)], e)]_vars


-----------------------------------------------------------------------------
(* Element identity (src/index/lru_cache.py), CodeElementHasher             *)
(* (src/index/element_hasher.py), ElementRegistry                           *)
(* (src/tests/test_index_deduplication.py), CodeElementFactory              *)
(* (src/tests/test_call_resolution.py) and LazyLoadedRegistry               *)
(* (src/index/lazy_registry.py, src/index/benchmark_config.py).             *)

\* CodeElementId: the frozen dataclass of the five identity coordinates
CodeElementId(file_path, element_type, name, start_line, end_line) ==
    [file_path |-> file_path, element_type |-> element_type, name |-> name,
     start_line |-> start_line, end_line |-> end_line]

\* CodeElementId.__str__
IdStr(id) ==
    id.file_path \o ":" \o id.element_type \o ":" \o id.name \o ":"
        \o ToString(id.start_line) \o "-" \o ToString(id.end_line)

\* An instance of BaseCodeElement or of a subclass of it: element_type is the
\* name of the instance's class, body its content, element_hash "" until set.
BaseCodeElement(element_type, file_path, name, start_line, end_line, body, element_hash) ==
    [element_type |-> element_type, file_path |-> file_path, name |-> name,
     start_line |-> start_line, end_line |-> end_line, body |-> body,
     element_hash |-> element_hash]

\* BaseCodeElement.element_id
BaseElementId(element) ==
    CodeElementId(element.file_path, element.element_type, element.name,
                  element.start_line, element.end_line)

\* BaseCodeElement.__eq__
BaseEq(a, b) == BaseElementId(a) = BaseElementId(b)

\* the classes whose normalisation CodeElementHasher hands to a method it
\* does not define (AttributeError)
TypeNormalized == {"FunctionElement", "ClassElement", "VariableElement"}

HashRaises(code_element) == code_element.element_type \in TypeNormalized

\* CodeElementHasher._create_normalized_representation
CreateNormalizedRepresentation(code_element) ==
    [type |-> code_element.element_type,
     file_path |-> code_element.file_path,
     line_range |-> <<code_element.start_line, code_element.end_line>>,
     name |-> code_element.name]

\* json.dumps(normalized_data, sort_keys=True, separators=(',', ':'))
CanonicalStr(d) ==
    "{file_path:" \o d.file_path
        \o ",line_range:[" \o ToString(d.line_range[1]) \o ","
        \o ToString(d.line_range[2]) \o "]"
        \o ",name:" \o d.name \o ",type:" \o d.type \o "}"

\* hashlib.sha256(...).hexdigest(), kept injective
Sha256(str) == "sha256(" \o str \o ")"

\* CodeElementHasher.compute_hash, where it does not raise
ComputeHash(code_element) ==
    Sha256(CanonicalStr(CreateNormalizedRepresentation(code_element)))

\* SemanticHasher._normalize_element: an element of these classes has none of
\* parameters, returns, decorators, docstring, body_hash or type, so every
\* getattr but the one of name yields its default
NormalizeElement(element) ==
    "{body:,decorators:[],docstring:,name:" \o element.name
        \o ",parameters:,returns:,type:}"

\* SemanticHasher.compute_hash
SemanticComputeHash(code_element) == Sha256(NormalizeElement(code_element))

\* the outcome of a registry call on the two maps
RegistryOutcome(by_id, by_hash, result, error) ==
    [by_id |-> by_id, by_hash |-> by_hash, result |-> result, error |-> error]

\* ElementRegistry.register
RegisterEffect(by_id, by_hash, element) ==
    LET id == BaseElementId(element)
    IN  IF id \in DOMAIN by_id
        THEN RegistryOutcome(by_id, by_hash, by_id[id], FALSE)
        ELSE IF element.element_hash = "" /\ HashRaises(element)
        THEN RegistryOutcome(by_id, by_hash, NoElement, TRUE)
        ELSE LET hashed == IF element.element_hash = ""
                           THEN [element EXCEPT
                                     !.element_hash = ComputeHash(element)]
                           ELSE element
             IN  RegistryOutcome(DictPut(by_id, id, hashed),
                                 DictPut(by_hash, hashed.element_hash, hashed),
                                 hashed, FALSE)

\* the fields of the dataclass models.function.FunctionElement, and those of
\* them without a default
FunctionElementFields ==
    {"name", "element_type", "file_path", "line_start", "line_end",
     "module_path", "signature", "docstring", "decorators", "parent_name",
     "ast_node", "is_method", "is_static", "is_class_method", "is_property",
     "is_constructor", "is_overridden", "is_override", "return_annotation",
     "calls", "called_by", "semantic_traits"}

RequiredFields ==
    {"name", "element_type", "file_path", "line_start", "line_end",
     "module_path", "signature"}

\* the keyword arguments create_function_element constructs its element with
FactoryKeywords == {"file_path", "name", "start_line", "end_line", "body"}

\* FunctionElement(**keywords) raises TypeError
ConstructRaises(keywords) ==
    \/ ~(keywords \subseteq FunctionElementFields)
    \/ ~(RequiredFields \subseteq keywords)

\* CodeElementFactory.create_function_element
CreateEffect(by_id, by_hash, file_path, name, start_line, end_line, body) ==
    IF ConstructRaises(FactoryKeywords)
    THEN RegistryOutcome(by_id, by_hash, NoElement, TRUE)
    ELSE LET temp_element == BaseCodeElement("FunctionElement", file_path, name,
                                             start_line, end_line, body, "")
             id == BaseElementId(temp_element)
         IN  IF id \in DOMAIN by_id
             THEN RegistryOutcome(by_id, by_hash, by_id[id], FALSE)
             ELSE IF HashRaises(temp_element)
             THEN RegistryOutcome(by_id, by_hash, NoElement, TRUE)
             ELSE RegisterEffect(by_id, by_hash,
                      [temp_element EXCEPT
                           !.element_hash = ComputeHash(temp_element)])

\* get_by_id treating a hash mismatch as an error: nothing is registered
LazyGetEffectStrict(by_id, by_hash, id, element, validate_hashes) ==
    IF id \in DOMAIN by_id
    THEN RegistryOutcome(by_id, by_hash, by_id[id], FALSE)
    ELSE IF element = NoElement
    THEN RegistryOutcome(by_id, by_hash, NoElement, FALSE)
    ELSE IF validate_hashes /\ HashRaises(element)
    THEN RegistryOutcome(by_id, by_hash, NoElement, TRUE)
    ELSE IF validate_hashes /\ ComputeHash(element) # element.element_hash
    THEN RegistryOutcome(by_id, by_hash, NoElement, TRUE)
    ELSE RegistryOutcome(DictPut(by_id, id, element),
                         DictPut(by_hash, element.element_hash, element),
                         element, FALSE)

\* LazyLoadedRegistry.get_by_id; element is what serializer.load_element
\* returned (NoElement: None)
LazyGetEffect(by_id, by_hash, id, element, validate_hashes) ==
    IF id \in DOMAIN by_id
    THEN RegistryOutcome(by_id, by_hash, by_id[id], FALSE)
    ELSE IF element = NoElement
    THEN RegistryOutcome(by_id, by_hash, NoElement, FALSE)
    ELSE IF validate_hashes /\ HashRaises(element)
    THEN RegistryOutcome(by_id, by_hash, NoElement, TRUE)
    ELSE RegistryOutcome(DictPut(by_id, id, element),
                         DictPut(by_hash, element.element_hash, element),
                         element, FALSE)

\* the hash validation of get_by_id reports a mismatch
HashMismatch(element) == ComputeHash(element) # element.element_hash

\* ---- the elements handed to the registries ----
R1 == BaseCodeElement("FunctionElement", "a.py", "f", 1, 2, "x", "h1")
\* the coordinates of R1 with another content and another hash
R2 == BaseCodeElement("FunctionElement", "a.py", "f", 1, 2, "y", "h2")
R3 == BaseCodeElement("BaseCodeElement", "a.py", "g", 1, 2, "x", "")
\* R3 moved to another file and other lines
R4 == BaseCodeElement("BaseCodeElement", "b.py", "g", 5, 6, "x", "")
\* the hash of R1 under other coordinates
R5 == BaseCodeElement("FunctionElement", "b.py", "f", 1, 2, "x", "h1")
\* R3 as a snapshot recorded it, with a stale hash and with the current one
R6 == BaseCodeElement("BaseCodeElement", "a.py", "g", 1, 2, "x", "h1")
R7 == BaseCodeElement("BaseCodeElement", "a.py", "g", 1, 2, "x",
                      ComputeHash(R3))

RegistryUniverse == {R1, R2, R3, R4, R5}
RegistryIds == {BaseElementId(e) : e \in RegistryUniverse}
LazyUniverse == {R1, R3, R6, R7}
LazyIds == {BaseElementId(e) : e \in LazyUniverse}

\* what serializer.load_element(element_id) can return: the recorded element
\* of that id, or None
SerializerLoads(id) == {e \in LazyUniverse : BaseElementId(e) = id} \cup {NoElement}

ApplyOutcome(out) ==
    /\ elements_by_id' = out.by_id
    /\ elements_by_hash' = out.by_hash
    /\ returned' = out.result
    /\ raised' = out.error

\* ElementRegistry.register(element)
Register(element) ==
    /\ ApplyOutcome(RegisterEffect(elements_by_id, elements_by_hash, element))
    /\ last_op' = Op("register", IdStr(BaseElementId(element)),
                     BaseElementId(element) \in DOMAIN elements_by_id,
                     element.element_hash = "")
    /\ UNCHANGED <<storeVars, semVars, queryVars, matchVars, decoVars, readVars,
                   threadVars>>

\* CodeElementFactory.create_function_element(file_path, name, start_line,
\* end_line, body)
CreateFunctionElement(file_path, name, start_line, end_line, body) ==
    /\ ApplyOutcome(CreateEffect(elements_by_id, elements_by_hash, file_path,
                                 name, start_line, end_line, body))
    /\ last_op' = Op("create_function_element",
                     IdStr(CodeElementId(file_path, "FunctionElement", name,
                                         start_line, end_line)),
                     CodeElementId(file_path, "FunctionElement", name,
                                   start_line, end_line)
                         \in DOMAIN elements_by_id,
                     FALSE)
    /\ UNCHANGED <<storeVars, semVars, queryVars, matchVars, decoVars, readVars,
                   threadVars>>

\* ElementRegistry.remove(element_id)
RegistryRemove(id) ==
    /\ IF id \in DOMAIN elements_by_id
       THEN /\ elements_by_hash' =
                   IF elements_by_id[id].element_hash \in DOMAIN elements_by_hash
                   THEN DictDel(elements_by_hash, elements_by_id[id].element_hash)
                   ELSE elements_by_hash
            /\ elements_by_id' = DictDel(elements_by_id, id)
       ELSE UNCHANGED <<elements_by_id, elements_by_hash>>
    /\ returned' = NoElement
    /\ raised' = FALSE
    /\ last_op' = Op("remove", IdStr(id), id \in DOMAIN elements_by_id, FALSE)
    /\ UNCHANGED <<storeVars, semVars, queryVars, matchVars, decoVars, readVars,
                   threadVars>>

\* ElementRegistry.clear()
RegistryClear ==
    /\ elements_by_id' = EmptyDict
    /\ elements_by_hash' = EmptyDict
    /\ returned' = NoElement
    /\ raised' = FALSE
    /\ last_op' = Op("registry_clear", NONE, FALSE, FALSE)
    /\ UNCHANGED <<storeVars, semVars, queryVars, matchVars, decoVars, readVars,
                   threadVars>>

\* LazyLoadedRegistry.get_by_id(element_id)
LazyGetById(id, element, validate_hashes) ==
    /\ ApplyOutcome(LazyGetEffect(elements_by_id, elements_by_hash, id, element,
                                  validate_hashes))
    /\ last_op' = Op("get_by_id", IdStr(id), id \in DOMAIN elements_by_id,
                     validate_hashes)
    /\ UNCHANGED <<storeVars, semVars, queryVars, matchVars, decoVars, readVars,
                   threadVars>>

\* LazyLoadedRegistry.register(element)
LazyRegister(element) ==
    /\ elements_by_id' = DictPut(elements_by_id, BaseElementId(element), element)
    /\ elements_by_hash' = DictPut(elements_by_hash, element.element_hash, element)
    /\ returned' = NoElement
    /\ raised' = FALSE
    /\ last_op' = Op("lazy_register", IdStr(BaseElementId(element)), FALSE, FALSE)
    /\ UNCHANGED <<storeVars, semVars, queryVars, matchVars, decoVars, readVars,
                   threadVars>>

FactoryFiles == {"a.py", "b.py"}
FactoryBodies == {"x", "y"}

NextRegistry ==
    \/ \E e \in RegistryUniverse : Register(e)
    \/ \E file_path \in FactoryFiles, body \in FactoryBodies :
           CreateFunctionElement(file_path, "f", 1, 2, body)
    \/ \E id \in RegistryIds : RegistryRemove(id)
    \/ RegistryClear

SpecRegistry == Init /\ [][NextRegistry]_vars

NextLazyRegistry ==
    \/ \E id \in LazyIds, validate_hashes \in BOOLEAN :
           \E element \in SerializerLoads(id) :
               LazyGetById(id, element, validate_hashes)
    \/ \E e \in LazyUniverse : LazyRegister(e)
    \/ RegistryClear

SpecLazyRegistry == Init /\ [][NextLazyRegistry]_vars

-----------------------------------------------------------------------------
(* Properties of the registries (SpecRegistry, SpecLazyRegistry).           *)

\* the registry maps are left as they were
MapsUnchanged == UNCHANGED <<elements_by_id, elements_by_hash>>

\* C12: registering or creating an element whose identity coordinates equal
\* those of a registered element returns the registered instance and leaves
\* the by-id map and the by-hash map unchanged, whatever the content or hash
\* of the new element.
C12_DuplicateReturnsRegistered ==
    [][/\ \A e \in RegistryUniverse :
              (Register(e) /\ BaseElementId(e) \in DOMAIN elements_by_id) =>
                  /\ ~raised'
                  /\ returned' = elements_by_id[BaseElementId(e)]
                  /\ MapsUnchanged
       /\ \A file_path \in FactoryFiles, body \in FactoryBodies :
              (/\ CreateFunctionElement(file_path, "f", 1, 2, body)
               /\ CodeElementId(file_path, "FunctionElement", "f", 1, 2)
                      \in DOMAIN elements_by_id) =>
                  /\ ~raised'
                  /\ returned' = elements_by_id[
                         CodeElementId(file_path, "FunctionElement", "f", 1, 2)]
                  /\ MapsUnchanged]_vars


-----------------------------------------------------------------------------
(* Frame properties of the store (SpecIdentity).                            *)

\* the store entry of the id is a resident (full) element
Resident(element_id) ==
    /\ element_id \in DOMAIN elements
    /\ "is_loaded" \notin DOMAIN elements[element_id]

\* the store, the secondary indexes, the cache and the two counters
frameVars == <<elements, indexVars, token_index, cache, usage_list,
               total_elements, loaded_elements>>

\* C13: add_element of an element whose id is already stored as a full
\* (resident) element leaves the store, every secondary index, the cache,
\* total_elements and loaded_elements unchanged.
C13_DuplicateFullAddIsNoOp ==
    [][\A e \in IdentityUniverse, force_full \in BOOLEAN :
           (AddElement(e, force_full) /\ Resident(ElementId(e))) =>
               UNCHANGED frameVars]_vars

\* an element of the id m.aa was added to a non-lazy index that already held
\* that id in full, next to another element
C13_Witness ==
    /\ last_op.op = "add_element"
    /\ ~last_op.fresh
    /\ ~lazy_loading
    /\ last_op.id = ElementId(E5)
    /\ Resident(ElementId(E5))
    /\ total_elements = 2


-----------------------------------------------------------------------------
(* The value of get_element and the operations of the cache.                *)

\* what get_element(element_id) returns in the current state (NoElement: None)
GetElementResult(element_id, parse_ok) ==
    IF element_id \notin DOMAIN elements THEN NoElement
    ELSE IF element_id \in DOMAIN cache THEN cache[element_id]
    ELSE IF IsReference(elements[element_id])
    THEN IF parse_ok /\ MatchesOf(elements[element_id]) # {}
         THEN FirstMatch(elements[element_id])
         ELSE NoElement
    ELSE elements[element_id]

\* what is left alone by an operation of the cache alone
cacheFrame == <<elements, indexVars, token_index, capacity, total_elements,
                loaded_elements, lazy_loading, search_index_all, snapshot,
                semVars, queryVars, matchVars, decoVars, registryVars, readVars, threadVars>>

\* evict_oldest that also drops the evicted id from the store
CacheEvictOldestPurging ==
    /\ usage_list # <<>>
    /\ cache' = DictDel(cache, Head(usage_list))
    /\ usage_list' = Tail(usage_list)
    /\ elements' = DictDel(elements, Head(usage_list))
    /\ last_op' = Op("evict_oldest", Head(usage_list), TRUE, FALSE)
    /\ UNCHANGED <<indexVars, token_index, capacity, total_elements,
                   loaded_elements, lazy_loading, search_index_all, snapshot,
                   semVars, queryVars, matchVars, decoVars, registryVars, readVars, threadVars>>

\* LRUCache.evict_oldest()
CacheEvictOldest ==
    LET c == LruEvictOldest([cache |-> cache, usage_list |-> usage_list])
    IN  /\ cache' = c.cache
        /\ usage_list' = c.usage_list
        /\ last_op' = Op("evict_oldest",
                         IF usage_list = <<>> THEN NONE ELSE Head(usage_list),
                         usage_list # <<>>, FALSE)
        /\ UNCHANGED cacheFrame

\* LRUCache.clear()
CacheClear ==
    /\ cache' = EmptyDict
    /\ usage_list' = <<>>
    /\ last_op' = Op("cache_clear", NONE, cache # EmptyDict, FALSE)
    /\ UNCHANGED cacheFrame

\* LRUCache.put(key, value)
CachePut(key, value) ==
    LET c == LruPut([cache |-> cache, usage_list |-> usage_list], capacity,
                    key, value)
    IN  /\ cache' = c.cache
        /\ usage_list' = c.usage_list
        /\ last_op' = Op("put", key,
                         key \notin DOMAIN cache
                             /\ Cardinality(DOMAIN cache) >= capacity,
                         key \notin DOMAIN cache)
        /\ UNCHANGED cacheFrame

\* LRUCache.get(key)
CacheGet(key) ==
    LET c == LruGet([cache |-> cache, usage_list |-> usage_list], key)
    IN  /\ cache' = c.cache
        /\ usage_list' = c.usage_list
        /\ last_op' = Op("get", key, FALSE, key \notin DOMAIN cache)
        /\ UNCHANGED cacheFrame

\* The store with its cache evicted and cleared at any point.
NextCache ==
    \/ \E e \in IdentityUniverse, force_full \in BOOLEAN : AddElement(e, force_full)
    \/ \E id \in IdentityIds, parse_ok \in BOOLEAN : GetElement(id, parse_ok)
    \/ Clear
    \/ CacheEvictOldest
    \/ CacheClear

SpecCache == Init /\ [][NextCache]_vars

MaxLruCapacity == 2
LruKeys == {"m.aa", "m.run", "aa"}
LruValues == {E1, E4}

\* An LRUCache on its own.
InitLru == InitState(0..MaxLruCapacity) /\ lazy_loading /\ ~search_index_all

NextLru ==
    \/ \E key \in LruKeys, value \in LruValues : CachePut(key, value)
    \/ \E key \in LruKeys : CacheGet(key)
    \/ CacheEvictOldest
    \/ CacheClear

SpecLru == InitLru /\ [][NextLru]_vars


-----------------------------------------------------------------------------
(* Properties of the store under cache operations (SpecCache).              *)

\* C14: once the store entry of an id is a resident element, it stays a
\* resident element through every later add_element, get_element, cache
\* eviction and cache clear, until clear() of the index: no step other than
\* clear() replaces a resident entry by a reference or drops it.
C14_ResidentStaysResident ==
    [][\A element_id \in DOMAIN elements :
           (Resident(element_id) /\ ~Clear) =>
               /\ element_id \in DOMAIN elements'
               /\ ~IsReference(elements'[element_id])]_vars

\* in a lazy index the cache has just evicted an id whose store entry is,
\* and stays, a resident element
C14_Witness ==
    /\ lazy_loading
    /\ last_op.op = "evict_oldest"
    /\ last_op.flag
    /\ Resident(last_op.id)
    /\ last_op.id \notin DOMAIN cache


\* C15: get_element(id) for an id that is not in the store returns nothing
\* without raising, and leaves the store, the secondary indexes, the cache
\* and both counters unchanged.
C15_UnknownIdReturnsNothing ==
    [][\A element_id \in IdentityIds, parse_ok \in BOOLEAN :
           (GetElement(element_id, parse_ok) /\ element_id \notin DOMAIN elements) =>
               /\ GetElementResult(element_id, parse_ok) = NoElement
               /\ UNCHANGED frameVars]_vars

\* get_element was called with an id the store does not hold while the store
\* and the cache hold another one
C15_Witness ==
    /\ last_op.op = "get_element"
    /\ ~last_op.fresh
    /\ last_op.id \notin DOMAIN elements
    /\ elements # EmptyDict
    /\ cache # EmptyDict


\* C16: for an element e whose source file is unchanged, add_element(e) in
\* lazy mode followed by get_element(e.id) returns the element that
\* add_element(e, force_full=True) stores (e itself, with its coordinates and
\* declared fields) and leaves that element stored under e.id.
C16_LazyRoundTrip ==
    [][\A e \in IdentityUniverse :
           (/\ GetElement(ElementId(e), TRUE)
            /\ ElementId(e) \in DOMAIN elements
            /\ elements[ElementId(e)] = FromElement(e)) =>
               /\ GetElementResult(ElementId(e), TRUE) = e
               /\ elements'[ElementId(e)] = e]_vars


-----------------------------------------------------------------------------
(* Properties of the lazy registry and of the content hash.                 *)

\* C17: in LazyLoadedRegistry.get_by_id with hash validation enabled, when
\* the hash computed for the freshly loaded element differs from the
\* recorded one, no error is raised: the loaded element is returned and is
\* registered under its id (and under its recorded hash), exactly as when
\* the hashes agree.
C17_MismatchIsNotFatal ==
    [][\A id \in LazyIds :
           \A element \in SerializerLoads(id) \ {NoElement} :
               (/\ LazyGetById(id, element, TRUE)
                /\ id \notin DOMAIN elements_by_id
                /\ ~HashRaises(element)
                /\ HashMismatch(element)) =>
                   /\ ~raised'
                   /\ returned' = element
                   /\ elements_by_id' = DictPut(elements_by_id, id, element)
                   /\ elements_by_hash' =
                          DictPut(elements_by_hash, element.element_hash, element)]_vars

\* a validated load has just registered and returned the element whose
\* recorded hash is stale
C17_Witness ==
    /\ last_op.op = "get_by_id"
    /\ last_op.fresh
    /\ ~last_op.flag
    /\ ~raised
    /\ returned = R6
    /\ HashMismatch(R6)
    /\ BaseElementId(R6) \in DOMAIN elements_by_id
    /\ elements_by_id[BaseElementId(R6)] = R6


\* two elements agree on the fields that carry meaning (of the name,
\* parameters, return type, decorators, docstring and body fingerprint these
\* elements have a name and a body)
SameSemantics(x, y) ==
    /\ x.element_type = y.element_type
    /\ x.name = y.name
    /\ x.body = y.body

\* the element's hash is the one compute_hash gave it
HashComputed(x) == ~HashRaises(x) /\ x.element_hash = ComputeHash(x)

\* C18: the content hash depends only on semantically meaningful fields: two
\* registered elements that agree on them but differ in start line, end line
\* or file location have the same compute_hash value.
C18_HashIgnoresLocation ==
    \A x \in Range(elements_by_id) : \A y \in Range(elements_by_id) :
        (HashComputed(x) /\ HashComputed(y) /\ SameSemantics(x, y)) =>
            x.element_hash = y.element_hash


-----------------------------------------------------------------------------
(* Cache independence (SpecCache) and recency order (SpecLru).              *)

\* what get_element(element_id) returns when the cache holds nothing
StoreResult(element_id, parse_ok) ==
    IF element_id \notin DOMAIN elements THEN NoElement
    ELSE IF IsReference(elements[element_id])
    THEN IF parse_ok /\ MatchesOf(elements[element_id]) # {}
         THEN FirstMatch(elements[element_id])
         ELSE NoElement
    ELSE elements[element_id]

\* C19: evicting an id from the LRU cache (evict_oldest, the eviction inside
\* put, or a cache clear) leaves the canonical store unchanged, and
\* get_element(id) returns for every id what it returns with nothing cached,
\* so the same element with and without the eviction.
C19_EvictionKeepsStoreAndResult ==
    [][/\ (CacheEvictOldest \/ CacheClear) =>
              /\ elements' = elements
              /\ \A element_id \in DOMAIN elements, parse_ok \in BOOLEAN :
                     GetElementResult(element_id, parse_ok)' =
                         GetElementResult(element_id, parse_ok)
       /\ \A element_id \in IdentityIds, parse_ok \in BOOLEAN :
              (GetElement(element_id, parse_ok) /\ Resident(element_id)) =>
                  elements' = elements
       /\ \A element_id \in DOMAIN elements', parse_ok \in BOOLEAN :
              GetElementResult(element_id, parse_ok)' =
                  StoreResult(element_id, parse_ok)']_vars

\* the cache of a non-lazy index of two elements has just evicted an id, and
\* get_element of that id still returns the stored element
C19_Witness ==
    /\ last_op.op = "evict_oldest"
    /\ last_op.flag
    /\ ~lazy_loading
    /\ total_elements = 2
    /\ last_op.id \in DOMAIN elements
    /\ last_op.id \notin DOMAIN cache
    /\ GetElementResult(last_op.id, TRUE) = elements[last_op.id]


\* the sequence without the key, the order of the other keys kept
Without(seq, key) == SelectSeq(seq, LAMBDA x : x # key)

\* the usage list names each cached key once
UsageListsCache(c, u) ==
    /\ Range(u) = DOMAIN c
    /\ Len(u) = Cardinality(DOMAIN c)

\* get or put of a cached key makes it the most recently used and keeps the
\* order of the others; put of a new key below capacity appends it
RecencyKept ==
    /\ \A key \in LruKeys :
           (CacheGet(key) /\ key \in DOMAIN cache) =>
               /\ usage_list' = Append(Without(usage_list, key), key)
               /\ cache' = cache
    /\ \A key \in LruKeys, value \in LruValues :
           (CachePut(key, value) /\ key \in DOMAIN cache) =>
               /\ usage_list' = Append(Without(usage_list, key), key)
               /\ cache' = DictPut(cache, key, value)
    /\ \A key \in LruKeys, value \in LruValues :
           (/\ CachePut(key, value)
            /\ key \notin DOMAIN cache
            /\ Cardinality(DOMAIN cache) < capacity) =>
               /\ usage_list' = Append(usage_list, key)
               /\ cache' = DictPut(cache, key, value)
    /\ UsageListsCache(cache', usage_list')

\* exactly one entry, the least recently used, makes room for the key
EvictsLeastRecentlyUsed(key, value) ==
    \E oldest \in DOMAIN cache :
        /\ oldest = Head(usage_list)
        /\ cache' = DictPut(DictDel(cache, oldest), key, value)
        /\ usage_list' = Append(Tail(usage_list), key)

C21_CacheWithinCapacity == Cardinality(DOMAIN cache) <= capacity


-----------------------------------------------------------------------------
(* The operations of the index statement by statement, run by two threads:  *)
(* the writer calls add_element and clear, the reader get_element and       *)
(* get_by_prefix. index_lock is CodebaseIndex._lock, cache_lock is          *)
(* LRUCache._lock; both are RLocks.                                         *)

\* RLock.acquire succeeds for the thread
CanAcquire(lock, t) == lock.owner \in {NONE, t}

\* the lock after acquire by the thread
Acquired(lock, t) == [owner |-> t, depth |-> lock.depth + 1]

\* the lock after release
Released(lock) ==
    IF lock.depth <= 1 THEN Unlocked ELSE [lock EXCEPT !.depth = @ - 1]

At(t, label) == pc[t].at = label

Goto(t, record) == pc' = [pc EXCEPT ![t] = record]

\* a set as a list, in the order the set is iterated
RECURSIVE SetToSeq(_)
SetToSeq(set) ==
    IF set = {} THEN <<>>
    ELSE LET x == CHOOSE x \in set : TRUE IN <<x>> \o SetToSeq(set \ {x})

\* the words of the trie below the node of the prefix
WordsBelow(trie, prefix) == {w \in DOMAIN trie : StartsWith(w, prefix)}

\* the orders in which the depth-first walk of _collect_ids can meet the end
\* nodes: a word before the words it is a prefix of
RECURSIVE Orders(_)
Orders(words) ==
    IF words = {} THEN {<<>>}
    ELSE UNION {{<<w>> \o rest : rest \in Orders(words \ {w})} :
                   w \in {v \in words : \A o \in words : ~(o # v /\ StartsWith(v, o))}}

\* Trie._collect_ids over the end nodes in the order met: each end node
\* extends the results with all its ids, then the length is tested
RECURSIVE CollectIds(_, _, _, _)
CollectIds(trie, order, results, max_results) ==
    IF order = <<>> THEN results
    ELSE LET extended == results \o SetToSeq(trie[Head(order)])
         IN  IF Len(extended) >= max_results THEN extended
             ELSE CollectIds(trie, Tail(order), extended, max_results)

\* Trie.find_prefix(prefix, max_results)
FindPrefix(trie, prefix, max_results, order) ==
    IF WordsBelow(trie, prefix) = {} THEN <<>>
    ELSE IF prefix \notin DOMAIN trie /\ max_results <= 0 THEN <<>>
    ELSE CollectIds(trie, order, <<>>, max_results)

\* ---- add_element(element), lines 107-134 ----

\* with self._lock (line 109)
AddAcquire(element) ==
    /\ At("writer", "idle")
    /\ ElementId(element) \notin DOMAIN elements => total_elements < MaxTotal
    /\ CanAcquire(index_lock, "writer")
    /\ index_lock' = Acquired(index_lock, "writer")
    /\ Goto("writer", [at |-> "add_locked", elem |-> element])
    /\ last_op' = Op("add_element", ElementId(element), FALSE,
                     ElementId(element) \notin DOMAIN elements)
    /\ UNCHANGED <<storeVars, semVars, queryVars, matchVars, decoVars, registryVars,
                   readVars, cache_lock, found>>

\* lines 110-128: the duplicate branch as a whole, or the write to _elements
AddStore ==
    /\ At("writer", "add_locked")
    /\ LET element == pc["writer"].elem
           element_id == ElementId(element)
       IN  IF element_id \in DOMAIN elements
           THEN /\ AddElementEffect(element, FALSE)
                /\ Goto("writer", [at |-> "add_done"])
           ELSE /\ IF lazy_loading
                   THEN /\ elements' = DictPut(elements, element_id,
                                               FromElement(element))
                        /\ UNCHANGED <<loaded_elements, token_index>>
                   ELSE /\ elements' = DictPut(elements, element_id, element)
                        /\ loaded_elements' = loaded_elements + 1
                        /\ token_index' =
                               IF search_index_all
                               THEN IndexElementForSearch(token_index, element)
                               ELSE token_index
                /\ Goto("writer", [at |-> "add_stored", elem |-> element])
                /\ UNCHANGED <<indexVars, total_elements>>
    /\ UNCHANGED <<cache, usage_list, capacity, lazy_loading, search_index_all,
                   snapshot, semVars, queryVars, matchVars, decoVars, registryVars,
                   readVars, index_lock, cache_lock, found, last_op>>

\* _update_indexes, lines 138-161: every map but the trie
AddIndex ==
    /\ At("writer", "add_stored")
    /\ LET element == pc["writer"].elem
           element_id == ElementId(element)
       IN  /\ modules' = ModulesAfter(modules, element_id, element)
           /\ classes' = ClassesAfter(classes, element_id, element)
           /\ functions' = FunctionsAfter(functions, element_id, element)
           /\ methods' = MethodsAfter(methods, element_id, element)
           /\ file_elements' = FileElementsAfter(file_elements, element_id, element)
           /\ parent_children' =
                  ParentChildrenAfter(parent_children, element_id, element)
           /\ Goto("writer", [at |-> "add_indexed", elem |-> element])
    /\ UNCHANGED <<elements, name_trie, token_index, cache, usage_list, capacity,
                   total_elements, loaded_elements, lazy_loading,
                   search_index_all, snapshot, semVars, queryVars, matchVars, decoVars,
                   registryVars, readVars, index_lock, cache_lock, found,
                   last_op>>

\* lines 164-165 and 134: the trie, then total_elements
AddTrie ==
    /\ At("writer", "add_indexed")
    /\ name_trie' = TrieInsert(name_trie, pc["writer"].elem.name,
                               ElementId(pc["writer"].elem))
    /\ total_elements' = total_elements + 1
    /\ Goto("writer", [at |-> "add_done"])
    /\ UNCHANGED <<elements, modules, classes, functions, methods,
                   file_elements, parent_children, token_index, cache,
                   usage_list, capacity, loaded_elements, lazy_loading,
                   search_index_all, snapshot, semVars, queryVars, matchVars, decoVars,
                   registryVars, readVars, index_lock, cache_lock, found,
                   last_op>>

\* leaving the with block of add_element or of clear
WriterRelease ==
    /\ At("writer", "add_done") \/ At("writer", "clear_done")
    /\ index_lock' = Released(index_lock)
    /\ Goto("writer", Idle)
    /\ UNCHANGED <<storeVars, semVars, queryVars, matchVars, decoVars, registryVars,
                   readVars, cache_lock, found, last_op>>

\* ---- clear(), lines 631-643 ----

ClearAcquire ==
    /\ At("writer", "idle")
    /\ CanAcquire(index_lock, "writer")
    /\ index_lock' = Acquired(index_lock, "writer")
    /\ Goto("writer", [at |-> "clear_locked"])
    /\ last_op' = Op("clear", NONE, FALSE, FALSE)
    /\ UNCHANGED <<storeVars, semVars, queryVars, matchVars, decoVars, registryVars,
                   readVars, cache_lock, found>>

\* lines 632-640: the store and the maps, the trie last
ClearMaps ==
    /\ At("writer", "clear_locked")
    /\ elements' = EmptyDict
    /\ modules' = EmptyDict
    /\ classes' = EmptyDict
    /\ functions' = EmptyDict
    /\ methods' = EmptyDict
    /\ file_elements' = EmptyDict
    /\ token_index' = EmptyDict
    /\ name_trie' = EmptyDict
    /\ parent_children' = EmptyDict
    /\ Goto("writer", [at |-> "clear_cache"])
    /\ UNCHANGED <<cache, usage_list, capacity, total_elements, loaded_elements,
                   lazy_loading, search_index_all, snapshot, semVars, queryVars,
                   matchVars, decoVars, registryVars, readVars, index_lock, cache_lock,
                   found, last_op>>

\* line 641: self._element_cache.clear() enters the cache's with self._lock
ClearCacheAcquire ==
    /\ At("writer", "clear_cache")
    /\ CanAcquire(cache_lock, "writer")
    /\ cache_lock' = Acquired(cache_lock, "writer")
    /\ Goto("writer", [at |-> "clear_in_cache"])
    /\ UNCHANGED <<storeVars, semVars, queryVars, matchVars, decoVars, registryVars,
                   readVars, index_lock, found, last_op>>

\* LRUCache.clear's body, then lines 642-643
ClearCacheBody ==
    /\ At("writer", "clear_in_cache")
    /\ cache' = EmptyDict
    /\ usage_list' = <<>>
    /\ total_elements' = 0
    /\ loaded_elements' = 0
    /\ cache_lock' = Released(cache_lock)
    /\ Goto("writer", [at |-> "clear_done"])
    /\ UNCHANGED <<elements, indexVars, token_index, capacity, lazy_loading,
                   search_index_all, snapshot, semVars, queryVars, matchVars, decoVars,
                   registryVars, readVars, index_lock, found, last_op>>

\* ---- get_element(element_id), lines 189-206 ----

\* where get_element returns to with its value
Continue(t, then, value) ==
    CASE then = "return" ->
            /\ read_result' = IF value = NoElement THEN <<>> ELSE <<value>>
            /\ Goto(t, Idle)
            /\ UNCHANGED <<name_memo, found>>
      [] then = "prefix_test" ->
            IF value = NoElement
            THEN /\ found' = Tail(found)
                 /\ Goto(t, [pc[t] EXCEPT !.at = "prefix_loop"])
                 /\ UNCHANGED <<name_memo, read_result>>
            ELSE /\ Goto(t, [pc[t] EXCEPT !.at = "prefix_second"])
                 /\ UNCHANGED <<name_memo, read_result, found>>
      [] then = "prefix_value" ->
            /\ read_result' = Append(read_result, value)
            /\ found' = Tail(found)
            /\ Goto(t, [pc[t] EXCEPT !.at = "prefix_loop"])
            /\ UNCHANGED name_memo

\* with self._lock (line 189)
GetAcquire(element_id) ==
    /\ At("reader", "idle")
    /\ loaded_elements < MaxLoaded
    /\ CanAcquire(index_lock, "reader")
    /\ index_lock' = Acquired(index_lock, "reader")
    /\ Goto("reader", [at |-> "get_locked", id |-> element_id, then |-> "return",
                       prefix |-> NONE, max_results |-> 0])
    /\ read_result' = <<>>
    /\ last_op' = Op("get_element", element_id, FALSE,
                     element_id \in DOMAIN elements)
    /\ UNCHANGED <<storeVars, semVars, queryVars, matchVars, decoVars, registryVars,
                   name_memo, cache_lock, found>>

\* lines 190-194: the membership test, then self._element_cache.get enters
\* the cache's with self._lock
GetLookup ==
    /\ At("reader", "get_locked")
    /\ IF pc["reader"].id \notin DOMAIN elements
       THEN /\ index_lock' = Released(index_lock)
            /\ Continue("reader", pc["reader"].then, NoElement)
            /\ UNCHANGED cache_lock
       ELSE /\ CanAcquire(cache_lock, "reader")
            /\ cache_lock' = Acquired(cache_lock, "reader")
            /\ Goto("reader", [pc["reader"] EXCEPT !.at = "get_in_cache"])
            /\ UNCHANGED <<index_lock, readVars, found>>
    /\ UNCHANGED <<storeVars, semVars, queryVars, matchVars, decoVars, registryVars,
                   last_op>>

\* lines 194-206: the cache lookup and what follows it, the cache's lock
\* taken and released by each cache call, then the index lock released
GetFinish(parse_ok) ==
    /\ At("reader", "get_in_cache")
    /\ GetElementEffect(pc["reader"].id, parse_ok)
    /\ cache_lock' = Released(cache_lock)
    /\ index_lock' = Released(index_lock)
    /\ Continue("reader", pc["reader"].then,
                GetElementResult(pc["reader"].id, parse_ok))
    /\ UNCHANGED <<indexVars, total_elements, capacity, lazy_loading,
                   search_index_all, snapshot, semVars, queryVars, matchVars, decoVars,
                   registryVars, last_op>>

\* ---- get_by_prefix(prefix, max_results), lines 270-271 ----

\* line 270: self._name_trie.find_prefix, outside any with block
FindPrefixStep(prefix, max_results, order) ==
    /\ At("reader", "idle")
    /\ found' = FindPrefix(name_trie, prefix, max_results, order)
    /\ read_result' = <<>>
    /\ Goto("reader", [at |-> "prefix_loop", id |-> NONE, then |-> NONE,
                       prefix |-> prefix, max_results |-> max_results])
    /\ last_op' = Op("get_by_prefix", prefix, FALSE, FALSE)
    /\ UNCHANGED <<storeVars, semVars, queryVars, matchVars, decoVars, registryVars,
                   name_memo, index_lock, cache_lock>>

\* line 271: the next id of the comprehension and the get_element of its
\* condition, or the return of the list
PrefixNext ==
    /\ At("reader", "prefix_loop")
    /\ IF found = <<>>
       THEN /\ Goto("reader", Idle)
            /\ last_op' = [op |-> "get_by_prefix", id |-> pc["reader"].prefix,
                           flag |-> TRUE, fresh |-> FALSE,
                           max_results |-> pc["reader"].max_results]
            /\ UNCHANGED index_lock
       ELSE /\ loaded_elements < MaxLoaded
            /\ CanAcquire(index_lock, "reader")
            /\ index_lock' = Acquired(index_lock, "reader")
            /\ Goto("reader", [pc["reader"] EXCEPT !.at = "get_locked",
                                                 !.id = Head(found),
                                                 !.then = "prefix_test"])
            /\ UNCHANGED last_op
    /\ UNCHANGED <<storeVars, semVars, queryVars, matchVars, decoVars, registryVars,
                   readVars, cache_lock, found>>

\* line 271: the get_element that yields the list item
PrefixSecond ==
    /\ At("reader", "prefix_second")
    /\ loaded_elements < MaxLoaded
    /\ CanAcquire(index_lock, "reader")
    /\ index_lock' = Acquired(index_lock, "reader")
    /\ Goto("reader", [pc["reader"] EXCEPT !.at = "get_locked",
                                         !.then = "prefix_value"])
    /\ UNCHANGED <<storeVars, semVars, queryVars, matchVars, decoVars, registryVars,
                   readVars, cache_lock, found, last_op>>

\* an element of module n that shares its name with E1
E6 == Elem("aa", "FUNCTION", "f3.py", 1, "n", NONE, "", <<>>, "util")

ThreadUniverse == {E1, E6}
ThreadIds == {ElementId(e) : e \in ThreadUniverse}
ThreadPrefixes == {"a", "aa"}
MaxResults == 1

NextThreads ==
    \/ \E e \in ThreadUniverse : AddAcquire(e)
    \/ AddStore
    \/ AddIndex
    \/ AddTrie
    \/ ClearAcquire
    \/ ClearMaps
    \/ ClearCacheAcquire
    \/ ClearCacheBody
    \/ WriterRelease
    \/ \E id \in ThreadIds : GetAcquire(id)
    \/ GetLookup
    \/ \E parse_ok \in BOOLEAN : GetFinish(parse_ok)
    \/ \E prefix \in ThreadPrefixes, max_results \in 0..MaxResults :
           \E order \in Orders(WordsBelow(name_trie, prefix)) :
               FindPrefixStep(prefix, max_results, order)
    \/ PrefixNext
    \/ PrefixSecond

InitThreads == InitState({MaxCapacity}) /\ ~search_index_all

SpecThreads == InitThreads /\ [][NextThreads]_vars


\* C22: the index lock and the cache lock are never held together by one
\* thread: no operation of the index enters the cache's lock while it holds
\* the index-wide lock.
C22_LocksNeverNested ==
    \A t \in Threads : ~(index_lock.owner = t /\ cache_lock.owner = t)

\* C23: the reader touches the name trie only when the writer is not inside
\* add_element or clear, so that it sees none or all of the mutation's
\* updates: every step of get_by_prefix that reads the trie is taken while
\* the writer does not hold the index lock.
C23_ReaderSeesNoPartialUpdate ==
    [][\A prefix \in ThreadPrefixes, max_results \in 0..MaxResults :
           \A order \in Orders(WordsBelow(name_trie, prefix)) :
               FindPrefixStep(prefix, max_results, order)
                   => index_lock.owner # "writer"]_vars


-----------------------------------------------------------------------------
(* get_by_name, behind functools.lru_cache.                                  *)

\* the key under which lru_cache files a call get_by_name(name, element_type)
MemoKey(name, element_type) == name \o "/" \o element_type

\* the id get_by_name resolves for (name, element_type), NONE when the body
\* calls get_element for no id (lines 224-255); the inputs hold no class that
\* shares its name with a function, so the branch without type filter
\* resolves at most one id
NameTarget(name, element_type) ==
    CASE element_type = "CLASS" ->
            IF name \in DOMAIN classes THEN classes[name] ELSE NONE
      [] element_type \in {"FUNCTION", "METHOD"} ->
            IF name \in DOMAIN functions THEN functions[name] ELSE NONE
      [] OTHER ->
            IF name \in DOMAIN classes THEN classes[name]
            ELSE IF name \in DOMAIN functions THEN functions[name] ELSE NONE

\* the list the body of get_by_name builds (lines 220-257)
ByNameBody(name, element_type, parse_ok) ==
    LET element_id == NameTarget(name, element_type)
        element == IF element_id = NONE THEN NoElement
                   ELSE GetElementResult(element_id, parse_ok)
    IN  IF element = NoElement THEN <<>>
        ELSE IF element_type \in {"FUNCTION", "METHOD"}
                /\ element.element_type # element_type THEN <<>>
        ELSE <<element>>

\* get_by_name(name, element_type), lines 208-257: lru_cache answers a call
\* it has seen with the list of the first call and runs the body otherwise
\* (its maxsize of 128 keys is above the number of keys the inputs make)
GetByNameEffect(name, element_type, parse_ok) ==
    IF MemoKey(name, element_type) \in DOMAIN name_memo
    THEN /\ read_result' = name_memo[MemoKey(name, element_type)]
         /\ UNCHANGED <<name_memo, elements, cache, usage_list,
                        loaded_elements, token_index>>
    ELSE /\ read_result' = ByNameBody(name, element_type, parse_ok)
         /\ name_memo' = DictPut(name_memo, MemoKey(name, element_type),
                                 ByNameBody(name, element_type, parse_ok))
         /\ IF NameTarget(name, element_type) = NONE
            THEN UNCHANGED <<elements, cache, usage_list, loaded_elements,
                             token_index>>
            ELSE GetElementEffect(NameTarget(name, element_type), parse_ok)

GetByName(name, element_type, parse_ok) ==
    /\ loaded_elements < MaxLoaded
    /\ GetByNameEffect(name, element_type, parse_ok)
    /\ last_op' = [op |-> "get_by_name", id |-> name, flag |-> parse_ok,
                   fresh |-> MemoKey(name, element_type) \notin DOMAIN name_memo,
                   element_type |-> element_type]
    /\ UNCHANGED <<indexVars, total_elements, capacity, lazy_loading,
                   search_index_all, snapshot, semVars, queryVars, matchVars, decoVars,
                   registryVars, threadVars>>

\* the class of E4
EK == Elem("K", "CLASS", "f2.py", 3, "n", NONE, "", <<>>, NONE)

NameUniverse == {E1, EK}
Names == {"aa", "K"}
ElementTypes == {"CLASS", "FUNCTION", NONE}

NextNames ==
    \/ \E e \in NameUniverse : AddElement(e, FALSE)
    \/ Clear
    \/ \E name \in Names, element_type \in ElementTypes, parse_ok \in BOOLEAN :
           GetByName(name, element_type, parse_ok)

InitNames == InitState({MaxCapacity}) /\ ~search_index_all

SpecNames == InitNames /\ [][NextNames]_vars

\* C24: get_by_name(name, kind) is a pure read of the current state: every
\* call, also one repeated with the same arguments after add_element or
\* clear, returns exactly what the current name maps and store yield for
\* (name, kind).
C24_GetByNameReadsCurrentState ==
    [][\A name \in Names, element_type \in ElementTypes, parse_ok \in BOOLEAN :
           GetByName(name, element_type, parse_ok)
               => read_result' = ByNameBody(name, element_type, parse_ok)]_vars


\* C25: get_by_prefix(prefix, max_results) returns at most max_results
\* elements, each with a name that starts with prefix, also when several
\* elements share one name.
C25_PrefixWithinLimit ==
    (last_op.op = "get_by_prefix" /\ last_op.flag)
        => /\ Len(read_result) <= last_op.max_results
           /\ \A i \in 1..Len(read_result) :
                  /\ read_result[i] # NoElement
                  /\ StartsWith(read_result[i].name, last_op.id)


-----------------------------------------------------------------------------
(* search: scoring under the lock, then the resolution of the sorted ids     *)
(* through get_element, one call after the other.                            *)

\* what a chain of get_element calls reads and writes
StoreNow ==
    [elements |-> elements, cache |-> cache, usage_list |-> usage_list,
     loaded_elements |-> loaded_elements, token_index |-> token_index]

\* the value of get_element(element_id) in the store st
ResolveValue(st, element_id, parse_ok) ==
    IF element_id \notin DOMAIN st.elements THEN NoElement
    ELSE IF element_id \in DOMAIN st.cache THEN st.cache[element_id]
    ELSE IF IsReference(st.elements[element_id])
    THEN IF parse_ok /\ MatchesOf(st.elements[element_id]) # {}
         THEN FirstMatch(st.elements[element_id])
         ELSE NoElement
    ELSE st.elements[element_id]

\* the store after _load_element(reference) in the store st
LoadInStore(st, reference, parse_ok) ==
    LET c0 == [cache |-> st.cache, usage_list |-> st.usage_list]
        c1 == IF st.loaded_elements >= capacity THEN LruEvictOldest(c0) ELSE c0
    IN  IF parse_ok /\ MatchesOf(reference) # {}
        THEN LET element == FirstMatch(reference)
                 c2 == LruPut(c1, capacity, ParserKey(element), element)
             IN  [elements |-> DictPut(st.elements, ParserKey(element), element),
                  cache |-> c2.cache, usage_list |-> c2.usage_list,
                  loaded_elements |-> st.loaded_elements + 1,
                  token_index |-> IndexElementForSearch(st.token_index, element)]
        ELSE [st EXCEPT !.cache = c1.cache, !.usage_list = c1.usage_list]

\* the store after get_element(element_id) in the store st
ResolveStore(st, element_id, parse_ok) ==
    IF element_id \notin DOMAIN st.elements THEN st
    ELSE IF element_id \in DOMAIN st.cache
    THEN LET c == LruGet([cache |-> st.cache, usage_list |-> st.usage_list],
                         element_id)
         IN  [st EXCEPT !.cache = c.cache, !.usage_list = c.usage_list]
    ELSE IF IsReference(st.elements[element_id])
    THEN LoadInStore(st, st.elements[element_id], parse_ok)
    ELSE LET c == LruPut([cache |-> st.cache, usage_list |-> st.usage_list],
                         capacity, element_id, st.elements[element_id])
         IN  [st EXCEPT !.cache = c.cache, !.usage_list = c.usage_list]

\* set(re.findall(r'\w+', query.lower())) of a lower-case query whose words
\* are separated by single blanks
QueryTokens(query) == Split(query, " ")

\* lines 297-299: what the exact-match test adds for one indexed token
ExactScore(token, idx_token) == IF idx_token = token THEN 3 ELSE 0

\* lines 302-308: what the partial-match loop adds for one indexed token
PartialScore(token, idx_token) ==
    IF StartsWith(idx_token, token) THEN 2
    ELSE IF Contains(idx_token, token) THEN 1
    ELSE 0

\* the pairs of a query token that is scored and an indexed token that holds
\* the id
ScoredPairs(element_id, tokens) ==
    {pair \in tokens \X DOMAIN token_index :
        Len(pair[1]) > 2 /\ element_id \in token_index[pair[2]]}

\* the sum of what lines 297-308 add over pairs of a query token and an
\* indexed token
RECURSIVE SumAdded(_)
SumAdded(pairs) ==
    IF pairs = {} THEN 0
    ELSE LET pair == CHOOSE pair \in pairs : TRUE
         IN  ExactScore(pair[1], pair[2]) + PartialScore(pair[1], pair[2])
                 + SumAdded(pairs \ {pair})

\* scores[element_id] after the loop of lines 292-308
ScoreOf(element_id, tokens) == SumAdded(ScoredPairs(element_id, tokens))

\* the score map: an id is a key once something was added to it
Scores(tokens) ==
    LET ids == {id \in UNION Range(token_index) : ScoreOf(id, tokens) > 0}
    IN  [id \in ids |-> ScoreOf(id, tokens)]

\* the lists sorted(scores.keys(), key=scores.get, reverse=True) can be: ties
\* stay in the order of first insertion, which follows set iteration
SortedIds(scores) ==
    {order \in Orders(DOMAIN scores) :
        \A i \in 1..Len(order), j \in 1..Len(order) :
            i < j => scores[order[i]] >= scores[order[j]]}

\* lines 314-320: the ids whose element is of the type
RECURSIVE FilterByType(_, _, _, _)
FilterByType(st, ids, element_type, parse_ok) ==
    IF ids = <<>> THEN [st |-> st, ids |-> <<>>]
    ELSE LET element == ResolveValue(st, Head(ids), parse_ok)
             rest == FilterByType(ResolveStore(st, Head(ids), parse_ok),
                                  Tail(ids), element_type, parse_ok)
         IN  IF element # NoElement /\ element.element_type = element_type
             THEN [rest EXCEPT !.ids = <<Head(ids)>> \o @]
             ELSE rest

\* lines 324-328: the elements of the ids
RECURSIVE ResolveAll(_, _, _)
ResolveAll(st, ids, parse_ok) ==
    IF ids = <<>> THEN [st |-> st, results |-> <<>>]
    ELSE LET element == ResolveValue(st, Head(ids), parse_ok)
             rest == ResolveAll(ResolveStore(st, Head(ids), parse_ok),
                                Tail(ids), parse_ok)
         IN  IF element # NoElement
             THEN [rest EXCEPT !.results = <<element>> \o @]
             ELSE rest

\* sorted_ids[:max_results]
Take(seq, n) == SubSeq(seq, 1, IF n < Len(seq) THEN n ELSE Len(seq))

\* search that cuts the sorted ids to max_results before it filters by type
SearchOutcomeCutFirst(order, element_type, max_results, parse_ok) ==
    LET filtered == IF element_type = NONE
                    THEN [st |-> StoreNow, ids |-> Take(order, max_results)]
                    ELSE FilterByType(StoreNow, Take(order, max_results),
                                      element_type, parse_ok)
    IN  ResolveAll(filtered.st, filtered.ids, parse_ok)

\* lines 311-330 for the sorted ids: the store and the list on return
SearchOutcome(order, element_type, max_results, parse_ok) ==
    LET filtered == IF element_type = NONE
                    THEN [st |-> StoreNow, ids |-> order]
                    ELSE FilterByType(StoreNow, order, element_type, parse_ok)
    IN  ResolveAll(filtered.st, Take(filtered.ids, max_results), parse_ok)

\* search(query, element_type, max_results), lines 273-330
Search(query, element_type, max_results, parse_ok, order) ==
    LET scores == Scores(QueryTokens(query))
        out == SearchOutcome(order, element_type, max_results, parse_ok)
    IN  /\ loaded_elements <= MaxLoaded
        /\ order \in SortedIds(scores)
        /\ elements' = out.st.elements
        /\ cache' = out.st.cache
        /\ usage_list' = out.st.usage_list
        /\ loaded_elements' = out.st.loaded_elements
        /\ token_index' = out.st.token_index
        /\ read_result' = out.results
        /\ last_op' = [op |-> "search", id |-> query, flag |-> parse_ok,
                       fresh |-> FALSE, element_type |-> element_type,
                       max_results |-> max_results, order |-> order,
                       scores |-> scores]
        /\ UNCHANGED <<indexVars, total_elements, capacity, lazy_loading,
                       search_index_all, snapshot, semVars, queryVars,
                       matchVars, decoVars, registryVars, name_memo, threadVars>>

Queries == {"aut run", "uth run"}
SearchTypes == {"FUNCTION", NONE}
MaxSearchResults == 2
SearchIds == {ElementId(e) : e \in SmallUniverse}

NextSearch ==
    \/ \E e \in SmallUniverse : AddElement(e, FALSE)
    \/ \E id \in SearchIds, parse_ok \in BOOLEAN : GetElement(id, parse_ok)
    \/ Clear
    \/ \E query \in Queries :
           \E order \in SortedIds(Scores(QueryTokens(query))) :
               \E element_type \in SearchTypes, max_results \in 0..MaxSearchResults,
                  parse_ok \in BOOLEAN :
                   Search(query, element_type, max_results, parse_ok, order)

InitSearch == InitState({MaxCapacity})

SpecSearch == InitSearch /\ [][NextSearch]_vars


\* the score of one query token against one indexed token by the scoring
\* rule: 3 equal, 2 proper prefix, 1 substring and no prefix, 0 otherwise
RuleScore(token, idx_token) ==
    IF idx_token = token THEN 3
    ELSE IF StartsWith(idx_token, token) THEN 2
    ELSE IF Contains(idx_token, token) THEN 1
    ELSE 0

RECURSIVE SumRule(_)
SumRule(pairs) ==
    IF pairs = {} THEN 0
    ELSE LET pair == CHOOSE pair \in pairs : TRUE
         IN  RuleScore(pair[1], pair[2]) + SumRule(pairs \ {pair})

\* C26: in search, the score a candidate receives from one query token and
\* one indexed token that holds it is 3 when the tokens are equal, 2 when the
\* query token is a proper prefix of the indexed token, 1 when it is a
\* substring and no prefix, 0 otherwise, and the total score of a candidate
\* is the sum of these over the query tokens and the indexed tokens.
C26_ScoreFollowsRule ==
    [][last_op'.op = "search"
           => \A id \in SearchIds :
                  ScoreOf(id, QueryTokens(last_op'.id))
                      = SumRule(ScoredPairs(id, QueryTokens(last_op'.id)))]_vars


\* the ids of the sorted list whose stored entry is of the type
OfType(order, element_type) ==
    SelectSeq(order, LAMBDA id : element_type = NONE
                                 \/ elements[id].element_type = element_type)

\* the elements of a list of ids when every file parses
ElementsOf(ids) == [i \in 1..Len(ids) |-> GetElementResult(ids[i], TRUE)]

\* C27: search(query, kind, limit) returns at most limit elements in
\* non-increasing score order, all of the kind when one is given, and the
\* kind filter is applied before truncation: when every file parses, the
\* result is the first limit elements of the requested kind in score order.
C27_SearchFiltersThenTruncates ==
    [][last_op'.op = "search"
           => LET op == last_op'
                  results == read_result'
              IN  /\ Len(results) <= op.max_results
                  /\ \A i \in 1..Len(results), j \in 1..Len(results) :
                         i < j => op.scores[ElementId(results[i])]
                                      >= op.scores[ElementId(results[j])]
                  /\ op.element_type # NONE
                         => \A i \in 1..Len(results) :
                                results[i].element_type = op.element_type
                  /\ op.flag
                         => results = ElementsOf(Take(OfType(op.order, op.element_type),
                                                      op.max_results))]_vars

\* a search for functions with limit 1 that returned the function E1 although
\* the method n.run scored higher
C27_Witness ==
    /\ last_op.op = "search"
    /\ last_op.element_type = "FUNCTION"
    /\ last_op.max_results = 1
    /\ last_op.order = <<"n.run", "m.aa">>
    /\ last_op.scores["n.run"] > last_op.scores["m.aa"]
    /\ read_result = <<E1>>


-----------------------------------------------------------------------------
(* Properties of the snapshot round trip (SpecSnapshot).                     *)

\* C28: save_to_file followed by load_from_file yields an index whose store
\* has the ids of the saved store (entries saved as full elements included),
\* whose secondary index maps equal the saved maps and whose total_elements
\* is the number of store entries.
C28_RoundTripKeepsStore ==
    last_op.op = "load_from_file" =>
        /\ last_op.fresh
        /\ DOMAIN elements = DOMAIN snapshot.elements
        /\ modules = snapshot.modules
        /\ classes = snapshot.classes
        /\ functions = snapshot.functions
        /\ methods = snapshot.methods
        /\ file_elements = snapshot.file_elements
        /\ parent_children = snapshot.parent_children
        /\ token_index = snapshot.token_index
        /\ total_elements = Cardinality(DOMAIN elements)


-----------------------------------------------------------------------------
(* Properties of the direct lookup and of the example scenario (SpecQuery).  *)

\* the three functions of the example: a, b and c
ExampleIds == {ElementId(E1), ElementId(E2), ElementId(E3)}

C30_DirectLookupAgreesWithMatches ==
    (last_op.op = "query" /\ IsSimpleIndexedLookup(q_filter)) =>
        /\ q_branch = "direct"
        /\ q_plan = NoPlan
        /\ q_result = {e \in Range(registry) : Matches(q_filter, e)}


-----------------------------------------------------------------------------
(* The order in which execute applies the parts of a plan (SpecQuery).       *)

Step(phase, f) == [phase |-> phase, filter |-> f]

\* the loop over indexed_lookups (execution_plan.py:16-24) as the list of
\* lookups it reaches, with the candidates it leaves
RECURSIVE TraceIndexed(_, _)
TraceIndexed(lookups, st) ==
    IF lookups = <<>> \/ st.returned THEN st
    ELSE LET c == LookupNarrow(GetIndexForField(Head(lookups).field_name),
                               Head(lookups), st.candidates)
         IN  TraceIndexed(Tail(lookups),
                          [candidates |-> c, returned |-> (c = {}),
                           trace |-> Append(st.trace, Step("indexed", Head(lookups)))])

\* the loop over prefix_lookups (lines 27-35)
RECURSIVE TracePrefix(_, _)
TracePrefix(lookups, st) ==
    IF lookups = <<>> \/ st.returned THEN st
    ELSE LET c == LookupNarrow(GetPrefixIndexForField(Head(lookups).field_name),
                               Head(lookups), st.candidates)
         IN  TracePrefix(Tail(lookups),
                         [candidates |-> c, returned |-> (c = {}),
                          trace |-> Append(st.trace, Step("prefix", Head(lookups)))])

\* the loop over remaining_filters (lines 38-43)
RECURSIVE TraceRemaining(_, _)
TraceRemaining(fs, st) ==
    IF fs = <<>> \/ st.returned THEN st
    ELSE LET c == {item \in st.candidates : Matches(Head(fs), item)}
         IN  TraceRemaining(Tail(fs),
                            [candidates |-> c, returned |-> (c = {}),
                             trace |-> Append(st.trace, Step("residual", Head(fs)))])

\* execute(index) as the list of the lookups and filters it applies, in order
ExecutionTrace(plan) ==
    TraceRemaining(plan.remaining_filters,
        TracePrefix(plan.prefix_lookups,
            TraceIndexed(plan.indexed_lookups,
                [candidates |-> Range(elements), returned |-> FALSE,
                 trace |-> <<>>]))).trace

PhaseRank(phase) ==
    CASE phase = "indexed" -> 1 [] phase = "prefix" -> 2 [] phase = "residual" -> 3

\* the estimated cost by the table: Exact 1, StartsWith 2, nested And 5,
\* nested Or 8, Regex 10, Fuzzy 20; 0 for a filter the table does not list
TableCost(f) ==
    CASE f.op = "field" /\ f.strategy = "exact" -> 1
      [] f.op = "field" /\ f.strategy = "startswith" -> 2
      [] f.op = "field" /\ f.strategy = "regex" -> 10
      [] f.op = "field" /\ f.strategy = "fuzzy" -> 20
      [] f.op = "and" -> 5
      [] f.op = "or" -> 8
      [] OTHER -> 0

Listed(f) == TableCost(f) > 0

-----------------------------------------------------------------------------
(* Absent and empty field values (SpecQuery).                              *)

\* the strategies and patterns FieldFilter.matches is evaluated with
Strategies == {"exact", "startswith", "regex", "includes"}
Patterns == {"", "a", "x", "util", "<None>"}

\* the fields an element of the index carries, and one it does not
ElementFields == {"name", "element_type", "file_path", "module_path", "parent_name", "doc", "role"}
AbsentField == "decorator"

\* the elements of the store whose value of the field is the empty string
WithEmptyValue(field_name) == {item \in AllElements : item[field_name] = ""}

\* C32: FieldFilter.matches is false, for every strategy and pattern, on an
\* element that lacks the field or holds None in it; an element whose value is
\* the empty string matches Exact "", and a query for Exact "" on a field
\* returns exactly the elements of the index whose value of that field is "".
C32_AbsentNeverMatchesEmptyMatchesEmpty ==
    /\ \A item \in AllElements, strategy \in Strategies, pattern \in Patterns :
           /\ ~FieldFilterMatches(FieldFilter(AbsentField, pattern, strategy), item)
           /\ \A field \in ElementFields :
                  item[field] = NONE =>
                      ~FieldFilterMatches(FieldFilter(field, pattern, strategy), item)
    /\ \A item \in AllElements, field \in ElementFields :
           item[field] = "" => FieldFilterMatches(FieldFilter(field, "", "exact"), item)
    /\ (q_branch # "none" /\ q_filter \in EmptyValueFilters) =>
           q_result = WithEmptyValue(q_filter.field_name)

-----------------------------------------------------------------------------
(* A leaf predicate that raises on one element (SpecRelation).             *)

\* an element with the relationship attribute calls
Related(e, calls) ==
    [x \in (DOMAIN e) \cup {"calls"} |-> IF x = "calls" THEN calls ELSE e[x]]

\* R_aa calls b, R_ab holds None in calls, R_b calls nothing, E4 has no calls
RelationUniverse ==
    {Related(E1, ListOf(<<"b">>)), Related(E2, NoList), Related(E3, ListOf(<<>>)), E4}

\* leaf predicates that no index answers
LeafFilters ==
    {RelationshipFilter("calls", "b"), RelationshipFilter("inherits", "b"),
     NameRun, NameHasB}

\* whether f.matches(item) raises, for a leaf f: FieldFilter.matches catches
\* Exception around the strategy call, RelationshipFilter.matches catches nothing
LeafRaises(f, item) ==
    CASE f.op = "field"        -> FALSE
      [] f.op = "relationship" -> RelationshipRaises(f, item)

\* QueryEngine.query(f) for a leaf f: f is the one residual filter of the plan,
\* execute evaluates it on every element, and what it raises leaves query.
QueryLeaf(f) ==
    IF \E item \in AllElements : LeafRaises(f, item)
    THEN /\ q_filter' = f
         /\ q_branch' = "raised"
         /\ q_result' = {}
         /\ q_plan' = NoPlan
         /\ q_calls' = 0
         /\ last_op' = Op("query", NONE, FALSE, FALSE)
         /\ UNCHANGED <<storeVars, semVars, matchVars, decoVars, registryVars, readVars, threadVars>>
    ELSE Query(f)

\* the patterns regex predicates are built with: a literal and a malformed one
RegexPatterns == {"b", "["}
MatchTypes == {"exact", "regex"}

\* FieldFilter(field_name, value, RegexStrategy()): __init__ stores its
\* arguments and RegexStrategy has no constructor, so nothing is compiled.
ConstructFieldFilter(field_name, value, strategy) == FieldFilter(field_name, value, strategy)

\* QueryEngine.query(FieldFilter('name', pattern, RegexStrategy()))
QueryRegex(pattern) == Query(ConstructFieldFilter("name", pattern, "regex"))

\* AttributeFilter(attr_name, value, match_type): a REGEX value is compiled in
\* __init__ and re.error is raised again as ValueError.
ConstructAttributeFilter(attr_name, value, match_type) ==
    /\ q_filter' = [op |-> "attribute", attr_name |-> attr_name, value |-> value,
                     match_type |-> match_type]
    /\ q_branch' = IF match_type = "regex" /\ MalformedRegex(value)
                    THEN "rejected" ELSE "constructed"
    /\ q_result' = {}
    /\ q_plan' = NoPlan
    /\ q_calls' = 0
    /\ last_op' = Op("construct", NONE, FALSE, FALSE)
    /\ UNCHANGED <<storeVars, semVars, matchVars, decoVars, registryVars, readVars, threadVars>>

NextRelation ==
    \/ \E e \in RelationUniverse : q_branch = "none" /\ AddElement(e, TRUE)
    \/ \E f \in LeafFilters : q_branch = "none" /\ QueryLeaf(f)
    \/ \E pattern \in RegexPatterns : q_branch = "none" /\ QueryRegex(pattern)
    \/ \E value \in RegexPatterns, match_type \in MatchTypes :
           q_branch = "none" /\ ConstructAttributeFilter("name", value, match_type)

SpecRelation == InitQuery /\ [][NextRelation]_vars

\* C33: a query with a leaf predicate returns to the caller, and returns
\* exactly the elements on which the predicate evaluates without raising and
\* matches; an element on which it raises counts as not matching.
C33_LeafErrorIsNonMatch ==
    (q_branch # "none" /\ q_filter \in LeafFilters) =>
        /\ q_branch # "raised"
        /\ q_result = {item \in AllElements :
                           ~LeafRaises(q_filter, item) /\ Matches(q_filter, item)}

\* a regex predicate whose pattern is malformed
IsMalformedRegexFilter(f) ==
    \/ f.op = "field" /\ f.strategy = "regex" /\ MalformedRegex(f.value)
    \/ f.op = "attribute" /\ f.match_type = "regex" /\ MalformedRegex(f.value)

\* C34: a filter with a malformed regular expression is rejected when it is
\* constructed: no query runs with it and no element is evaluated against it.
C34_MalformedRegexRejected ==
    (q_branch # "none" /\ IsMalformedRegexFilter(q_filter)) =>
        /\ q_branch = "rejected"
        /\ q_calls = 0

-----------------------------------------------------------------------------
(* Deeply nested filters (SpecNested).                                     *)

MaxDepth == 4

\* what QueryEngine.query(f) returns, no formatter set
QueryResult(f) ==
    IF f = NoFilter THEN AllElements
    ELSE IF IsSimpleIndexedLookup(f) THEN DirectLookup(f)
    ELSE IF CanUseIndexDirectly(f) THEN QueryWithIndex(f)
    ELSE IF f.op = "and" /\ ContainsExpensiveStrategy(f) THEN OptimizedExecution(f)
    ELSE Execute(CreateExecutionPlan(f)).candidates

\* the filter of EdgeCaseTests.setUp: current = F, then for i in range(n)
\* current = AndFilter([current, F]) for even i, OrFilter([current, F]) for odd i
RECURSIVE Nested(_, _)
Nested(F, n) ==
    IF n = 0 THEN F
    ELSE IF (n - 1) % 2 = 0 THEN AndFilter(<<Nested(F, n - 1), F>>)
    ELSE OrFilter(<<Nested(F, n - 1), F>>)

NextNested ==
    \/ \E e \in Universe : q_branch = "none" /\ ProcessFile(e)
    \/ \E e \in Universe : q_branch = "none" /\ AddElement(e, TRUE)
    \/ \E F \in Leaves, n \in 0..MaxDepth : q_branch = "none" /\ Query(Nested(F, n))

SpecNested == InitQuery /\ [][NextNested]_vars

\* C35: the query of a field predicate F wrapped n times in alternating And
\* and Or with itself returns the elements the query of F alone returns.
C35_NestingKeepsResult ==
    \A F \in Leaves, n \in 1..MaxDepth :
        (q_branch # "none" /\ q_filter = Nested(F, n)) => q_result = QueryResult(F)

-----------------------------------------------------------------------------
(* _optimized_execution as a list computation (SpecQuery).                 *)

\* the lists all_elements() can return: the values of the store in any order
RECURSIVE AllOrders(_)
AllOrders(set) ==
    IF set = {} THEN {<<>>}
    ELSE UNION {{<<x>> \o rest : rest \in AllOrders(set \ {x})} : x \in set}

\* [item for item in candidates if f.matches(item)]
Keep(candidates, f) == SelectSeq(candidates, LAMBDA item : Matches(f, item))

\* for exp_filter in expensive_filters: candidates = [... exp_filter.matches ...]
RECURSIVE KeepEach(_, _)
KeepEach(candidates, fs) ==
    IF fs = <<>> THEN candidates ELSE KeepEach(Keep(candidates, Head(fs)), Tail(fs))

\* _optimized_execution(and_filter) on the list all_elements() returned
OptimizedExecutionList(f, all) ==
    LET cheap_filters == SelectSeq(f.filters, LAMBDA c : ~ContainsExpensiveStrategy(c))
        expensive_filters == SelectSeq(f.filters, LAMBDA c : ContainsExpensiveStrategy(c))
        narrowed == IF cheap_filters # <<>> THEN Keep(all, AndFilter(cheap_filters)) ELSE all
    IN  KeepEach(narrowed, expensive_filters)

\* C36: for an AndFilter with a Regex child, _optimized_execution returns the
\* elements on which the AndFilter's matches is true, and only those, in the
\* order all_elements lists them.
C36_OptimizedExecutionIsMatches ==
    (q_branch = "optimized") =>
        /\ q_result = {item \in AllElements : Matches(q_filter, item)}
        /\ \A all \in AllOrders(AllElements) :
               /\ OptimizedExecutionList(q_filter, all) = Keep(all, q_filter)
               /\ q_result = Range(OptimizedExecutionList(q_filter, all))

\* the Regex child excluded aa, which the cheap child had kept
C36_Witness ==
    /\ q_branch = "optimized"
    /\ q_filter = AndFilter(<<NameHasB, NameA>>)
    /\ E1 \in AllElements
    /\ q_result = {E2}

-----------------------------------------------------------------------------
(* The cache holds what the store holds (SpecCache).                       *)

\* C37: every key of the LRU cache is a key of the canonical store, the store
\* entry under it is a resident element and not a reference, and the cached
\* value is that element.
C37_CacheHoldsStoredElements ==
    \A key \in DOMAIN cache :
        /\ key \in DOMAIN elements
        /\ Resident(key)
        /\ cache[key] = elements[key]

\* a lazy index that has loaded a referenced element into the cache and holds
\* another entry that is still a reference
C37_Witness ==
    /\ lazy_loading
    /\ last_op.op = "get_element"
    /\ \E key \in DOMAIN cache : cache[key] = elements[key]
    /\ \E id \in DOMAIN elements : ~Resident(id)
    /\ loaded_elements > 0

-----------------------------------------------------------------------------
(* The two counters of the store (Spec).                                   *)

\* the ids whose store entry is a resident element
ResidentIds == {id \in DOMAIN elements : Resident(id)}

-----------------------------------------------------------------------------
(* The order of the two locks (SpecLocks).                                 *)

\* the values the threshold (max_memory_mb * 1024 * 1024) / 1000 of
\* build_index_from_directory is drawn from, rounded down
MemoryThresholds == {0, 1}

\* build_index_from_directory, lines 618-622: after a batch, outside any with
\* block, the memory test and self._element_cache.clear() entering the
\* cache's with self._lock
BuildClearAcquire(threshold) ==
    /\ At("writer", "idle")
    /\ loaded_elements > threshold
    /\ CanAcquire(cache_lock, "writer")
    /\ cache_lock' = Acquired(cache_lock, "writer")
    /\ Goto("writer", [at |-> "build_in_cache"])
    /\ last_op' = Op("build_cache_clear", NONE, FALSE, FALSE)
    /\ UNCHANGED <<storeVars, semVars, queryVars, matchVars, decoVars, registryVars,
                   readVars, index_lock, found>>

\* LRUCache.clear's body with the index lock taken inside it
BuildClearBodyTakingIndexLock ==
    /\ At("writer", "build_in_cache")
    /\ CanAcquire(index_lock, "writer")
    /\ cache' = EmptyDict
    /\ usage_list' = <<>>
    /\ cache_lock' = Released(cache_lock)
    /\ Goto("writer", Idle)
    /\ UNCHANGED <<elements, indexVars, token_index, capacity, total_elements,
                   loaded_elements, lazy_loading, search_index_all, snapshot,
                   semVars, queryVars, matchVars, decoVars, registryVars, readVars,
                   index_lock, found, last_op>>

\* LRUCache.clear's body, lines 695-697, and the return to the batch loop
BuildClearBody ==
    /\ At("writer", "build_in_cache")
    /\ cache' = EmptyDict
    /\ usage_list' = <<>>
    /\ cache_lock' = Released(cache_lock)
    /\ Goto("writer", Idle)
    /\ UNCHANGED <<elements, indexVars, token_index, capacity, total_elements,
                   loaded_elements, lazy_loading, search_index_all, snapshot,
                   semVars, queryVars, matchVars, decoVars, registryVars, readVars,
                   index_lock, found, last_op>>

\* the steps of the writer inside an operation; those that enter a lock are
\* ClearCacheAcquire (the cache lock, under the index lock) only
WriterSteps ==
    \/ AddStore
    \/ AddIndex
    \/ AddTrie
    \/ ClearMaps
    \/ ClearCacheAcquire
    \/ ClearCacheBody
    \/ WriterRelease
    \/ BuildClearBody

\* the steps of the reader inside get_element; GetLookup enters the cache lock
ReaderSteps ==
    \/ GetLookup
    \/ \E parse_ok \in BOOLEAN : GetFinish(parse_ok)

NextLocks ==
    \/ \E e \in ThreadUniverse : AddAcquire(e)
    \/ ClearAcquire
    \/ \E threshold \in MemoryThresholds : BuildClearAcquire(threshold)
    \/ WriterSteps
    \/ \E id \in ThreadIds : GetAcquire(id)
    \/ ReaderSteps

\* A thread inside an operation keeps running (weak fairness of its steps),
\* and the reader, when it waits in LRUCache.get for the cache lock, gets the
\* lock if it is released again and again (strong fairness of GetLookup). The
\* writer never waits inside an operation.
SpecLocks ==
    /\ InitThreads
    /\ [][NextLocks]_vars
    /\ WF_vars(WriterSteps)
    /\ WF_vars(ReaderSteps)
    /\ SF_vars(GetLookup)

\* the thread enters the index lock in this step
EntersIndexLock(t) == index_lock'.owner = t /\ index_lock.owner # t

-----------------------------------------------------------------------------
(* DecoratorIndex: src/index/decorator_index.py (SpecDecorators).          *)

MaxAdds == 1

\* an element as DecoratorIndex reads it: decorators, and decorator_info as
\* the list of its values (category, resolved)
DecoElem(n, decs, info) == [name |-> n, decorators |-> decs, decorator_info |-> info]
Info(category, resolved) == [category |-> category, resolved |-> resolved]

D1 == DecoElem("x", <<"@cache">>, <<Info("caching", TRUE)>>)
D2 == DecoElem("y", <<"@cache_page(60)">>, <<Info("unknown", FALSE)>>)
D3 == DecoElem("z", <<"@login_required">>, <<>>)
D4 == DecoElem("w", <<>>, <<>>)
D5 == DecoElem("v", <<"@app.cache">>, <<Info("caching", FALSE)>>)
DecoUniverse == {D1, D2, D3, D4, D5}
DecoratorNames == {"cache", "@cache", "login_required", "route"}

\* list.count(x)
RECURSIVE Occurrences(_, _)
Occurrences(list, x) ==
    IF list = <<>> THEN 0
    ELSE (IF Head(list) = x THEN 1 ELSE 0) + Occurrences(Tail(list), x)

\* add_element, lines 27-33: category_to_elements after the loop over the infos
RECURSIVE CategoriesIndexed(_, _, _)
CategoriesIndexed(m, element, infos) ==
    IF infos = <<>> THEN m
    ELSE CategoriesIndexed(
             IF Head(infos).category # "unknown"
             THEN AppendUnder(m, Head(infos).category, element) ELSE m,
             element, Tail(infos))

\* add_element, lines 36-37: has_unresolved after the loop
HasUnresolved(infos) == \E i \in DOMAIN infos : ~infos[i].resolved

\* DecoratorIndex.add_element(element)
DecoAddElement(element) ==
    /\ Occurrences(unresolved, element) < MaxAdds
    /\ \A i \in DOMAIN element.decorators :
           Occurrences(DictGet(decorator_to_elements, BaseName(element.decorators[i]),
                               <<>>), element) < MaxAdds
    /\ IF element.decorators = <<>>
       THEN UNCHANGED <<decorator_to_elements, category_to_elements, unresolved>>
       ELSE /\ decorator_to_elements' =
                   DecoratorsIndexed(decorator_to_elements, element, element.decorators)
            /\ IF element.decorator_info # <<>>
               THEN /\ category_to_elements' =
                           CategoriesIndexed(category_to_elements, element,
                                             element.decorator_info)
                    /\ unresolved' = IF HasUnresolved(element.decorator_info)
                                     THEN Append(unresolved, element)
                                     ELSE unresolved
               ELSE UNCHANGED <<category_to_elements, unresolved>>
    /\ last_op' = Op("deco_add_element", element.name, FALSE, FALSE)
    /\ UNCHANGED <<storeVars, semVars, queryVars, matchVars, registryVars, readVars,
                   threadVars, find_result>>

\* find_by_decorator, lines 52-55: results after the loop over self.unresolved
RECURSIVE ExtendWithUnresolved(_, _, _)
ExtendWithUnresolved(results, pending, decorator_name) ==
    IF pending = <<>> THEN results
    ELSE LET element == Head(pending)
             hit == \E i \in DOMAIN element.decorators :
                        Contains(element.decorators[i], decorator_name)
         IN  ExtendWithUnresolved(
                 IF hit /\ element \notin Range(results)
                 THEN Append(results, element) ELSE results,
                 Tail(pending), decorator_name)

\* what find_by_decorator returns on the maps d2e and the list pending
FindResult(d2e, pending, decorator_name, include_unresolved) ==
    LET name == LStripAt(decorator_name)
        results == DictGet(d2e, name, <<>>)
    IN  IF include_unresolved THEN ExtendWithUnresolved(results, pending, name)
        ELSE results

\* find_by_decorator with results taken as a copy of the stored list
FindByDecoratorOnCopy(decorator_name, include_unresolved) ==
    /\ find_result' = FindResult(decorator_to_elements, unresolved, decorator_name,
                                  include_unresolved)
    /\ last_op' = Op("find_by_decorator", decorator_name, include_unresolved, FALSE)
    /\ UNCHANGED <<storeVars, semVars, queryVars, matchVars, registryVars, readVars,
                   threadVars, decorator_to_elements, category_to_elements, unresolved>>

\* DecoratorIndex.find_by_decorator(decorator_name, include_unresolved):
\* results is the list stored under the name when the name is a key (dict.get
\* returns the stored object), and results.append writes to that list
FindByDecorator(decorator_name, include_unresolved) ==
    LET name == LStripAt(decorator_name)
        results == FindResult(decorator_to_elements, unresolved, decorator_name,
                              include_unresolved)
    IN  /\ find_result' = results
        /\ decorator_to_elements' =
               IF name \in DOMAIN decorator_to_elements
               THEN DictPut(decorator_to_elements, name, results)
               ELSE decorator_to_elements
        /\ last_op' = Op("find_by_decorator", decorator_name, include_unresolved, FALSE)
        /\ UNCHANGED <<storeVars, semVars, queryVars, matchVars, registryVars, readVars,
                       threadVars, category_to_elements, unresolved>>

NextDecorators ==
    \/ \E element \in DecoUniverse : DecoAddElement(element)
    \/ \E decorator_name \in DecoratorNames, include_unresolved \in BOOLEAN :
           FindByDecorator(decorator_name, include_unresolved)

SpecDecorators == InitQuery /\ [][NextDecorators]_vars

\* C40: find_by_decorator is a pure read: it leaves decorator_to_elements,
\* category_to_elements and unresolved as they were, so that every later call,
\* with or without include_unresolved, returns what it returned before.
C40_FindByDecoratorIsPure ==
    [][last_op'.op = "find_by_decorator" =>
           /\ decorator_to_elements' = decorator_to_elements
           /\ category_to_elements' = category_to_elements
           /\ unresolved' = unresolved
           /\ \A decorator_name \in DecoratorNames, include_unresolved \in BOOLEAN :
                  FindResult(decorator_to_elements', unresolved', decorator_name,
                             include_unresolved)
                      = FindResult(decorator_to_elements, unresolved, decorator_name,
                                   include_unresolved)]_vars

====
